---- MODULE Spec2Model ----
(***************************************************************************)
(* State-machine model of the VersusAI comparison session engine: the App  *)
(* component's state (search state machine, history ledger, saved          *)
(* comparisons, deep-link URL parameter), the compareProducts request with *)
(* its extraction of the record and the sources from the model's answer,   *)
(* the persona selection and the row feedback of the ComparisonResults     *)
(* component, the page load with the two lists kept in localStorage, and   *)
(* the statistics panel.                                                   *)
(*                                                                         *)
(* Positions in lists are 1-based here; the source's 0-based findIndex     *)
(* result -1 ("not found") is 0 in this model.                             *)
(***************************************************************************)
EXTENDS Integers, Sequences, FiniteSets, TLC

VARIABLES
    query,             \* useState('')  : the text of the input field
    loadingState,      \* useState(LoadingState.IDLE)
    result,            \* useState<AnalysisResult | null>(null)
    error,             \* useState<string | null>(null)
    history,           \* useState<HistoryItem[]>(...)
    savedComparisons,  \* useState<SavedComparison[]>(...)
    view,              \* useState<'home' | 'saved'>('home')
    urlQ,              \* the q parameter of window.location
    urlOk,             \* whether window.history.pushState works in this browser context
    mounted,           \* whether the mount effect (deep linking) has run
    inflight,          \* compareProducts calls awaiting the service, in dispatch order
    now,               \* Date.now()
    last,              \* history variable: the handler that ran last and its argument
    response,          \* the answer of the generative model in this session: text, citations
    selectedPersona,   \* ComparisonResults: useState<string | null>(null)
    personaResult,     \* ComparisonResults: useState<{winner, reason} | null>(null)
    loadingPersona,    \* ComparisonResults: useState(false)
    personaInflight,   \* getPersonaAnalysis calls of the mounted component awaiting the service
    preferredPersonaId, \* localStorage item 'preferredPersonaId'
    storageOk,         \* whether localStorage can be read and written in this browser context
    prefetched,        \* history variable: the result the effect last requested an analysis for
    rowFeedback,       \* ComparisonResults: useState<{[key: number]: 'up' | 'down'}>({})
    feedbackStore,     \* localStorage items 'feedback_<timestamp>', by timestamp
    boot,              \* whether the App function has run: "pending", "running", "crashed"
    lsHistory,         \* localStorage item 'searchHistory'
    lsSaved,           \* localStorage item 'savedComparisons'
    statsPeriod,       \* useState<'24h' | '7d' | '30d'>('7d')
    realStats          \* useState({searches: 0, savedCount: 0, trend: '0%'})

\* the state of the App component and of its requests
appVars == <<query, loadingState, result, error,
             history, savedComparisons, view, urlQ, urlOk, mounted, inflight,
             now, last>>

\* the state of the ComparisonResults component and of the item it persists
personaVars == <<selectedPersona, personaResult, loadingPersona, personaInflight,
                 preferredPersonaId>>

\* what the session is given: the service's answer and the browser's storage
envVars == <<response, storageOk>>

\* the row feedback of the ComparisonResults component and the items it persists
feedbackVars == <<rowFeedback, feedbackStore>>

\* the page load and the two lists in the storage
storeVars == <<boot, lsHistory, lsSaved>>

\* the statistics panel
statsVars == <<statsPeriod, realStats>>

\* what the ComparisonResults component neither reads nor writes
sideVars == <<storeVars, statsVars>>

vars == <<appVars, envVars, personaVars, prefetched, feedbackVars, sideVars>>

----------------------------------------------------------------------------
(* Bounds of the model *)

MaxTime == 2
MaxInFlight == 2
MaxSaved == 2
MaxPick == 1
MaxText == 4
MaxChunks == 2
MaxPersonaCalls == 2

MaxRows == 2
MaxPerAge == 2

----------------------------------------------------------------------------
(* Values *)

MAX_HISTORY == 20

Null == [null |-> TRUE]
NoError == "<null>"
NoParam == "<absent>"
NoPersona == "<null>"
NoResponse == [text |-> <<>>, chunks |-> <<>>]
Undefined == "<undefined>"

GenericError == "Ocorreu um erro ao processar sua comparacao. Tente novamente mais tarde."

IDLE == "IDLE"
LOADING == "LOADING"
SUCCESS == "SUCCESS"
ERROR == "ERROR"

QA == "React vs Vue"
QB == "React vs Vue vs Angular"
QC == "PS5 Slim vs Xbox Series X"

examples == {QA}
presetSuggestions == <<QB>>
TypedInputs == {"", " ", QA}
Causes == {"network", "quota"}
Outcomes == {"structured", "raw"}

\* variant: only the empty string counts as blank (no trim)
Blank_NoTrim(s) == s = ""

\* s.trim() is empty
Blank(s) == s \in {"", " "}

\* a JavaScript falsy string argument: undefined or ''
Falsy(s) == s \in {Undefined, ""}

\* item.toLowerCase().includes(inputValue.toLowerCase()), on the strings of the model
IncludesLower(item, inputValue) ==
    \/ inputValue = ""
    \/ item = inputValue
    \/ inputValue = " " /\ item \in {QA, QB}
    \/ inputValue = QA /\ item = QB

----------------------------------------------------------------------------
(* Sequence helpers *)

Min(a, b) == IF a < b THEN a ELSE b

\* Array.prototype.slice(0, n)
Slice(s, n) == SubSeq(s, 1, Min(n, Len(s)))

RemoveAt(s, i) == [j \in 1..(Len(s) - 1) |-> IF j < i THEN s[j] ELSE s[j + 1]]

RECURSIVE Dedup(_)
\* Array.from(new Set(s)): first occurrences, in order
Dedup(s) ==
    IF s = <<>> THEN <<>>
    ELSE LET front == Dedup(SubSeq(s, 1, Len(s) - 1))
             x == s[Len(s)]
         IN IF \E i \in 1..Len(front) : front[i] = x THEN front ELSE Append(front, x)

Queries(h) == [i \in 1..Len(h) |-> h[i].query]

----------------------------------------------------------------------------
(* Persistent storage content at start-up (localStorage, after JSON.parse) *)

\* a parsed list item: a legacy string, or a HistoryItem object
Str(s) == [kind |-> "string", query |-> s, timestamp |-> 0]
Obj(q, t) == [kind |-> "object", query |-> q, timestamp |-> t]

StoredNames == <<"h1", "h2", "h3", "h4", "h5", "h6", "h7", "h8", "h9", "h10",
                 "h11", "h12", "h13", "h14", "h15", "h16", "h17", "h18", "h19",
                 "h20", "h21">>

\* a ledger written by an earlier session: n old queries, the oldest being QA
StoredLedger(n) == [i \in 1..n |-> IF i = n THEN Obj(QA, 0) ELSE Obj(StoredNames[i], 0)]

StoredHistories ==
    { <<>>,                              \* key absent: safeJSONParse gives the fallback []
      <<Str(QB), Str(QA)>>,              \* legacy format
      <<Str(QA), Str(QA)>>,              \* legacy format, one query twice
      StoredLedger(MAX_HISTORY),         \* a full ledger
      StoredLedger(MAX_HISTORY + 1) }    \* a list longer than the cap

\* variant: every entry gets the load time as its timestamp
loadHistory_Restamp(raw, t) ==
    [i \in 1..Len(raw) |-> [query |-> raw[i].query, timestamp |-> t]]

\* useState initializer of history
loadHistory(raw, t) ==
    IF Len(raw) > 0 /\ raw[1].kind = "string"
    THEN [i \in 1..Len(raw) |-> [query |-> raw[i].query, timestamp |-> t]]
    ELSE [i \in 1..Len(raw) |-> [query |-> raw[i].query, timestamp |-> raw[i].timestamp]]

\* a PersonaDefinition
Persona(id, label) == [id |-> id, label |-> label]

\* data.personas of the record returned for a query
PersonasOf(q) ==
    IF q = QA THEN <<Persona("p1", "Professional"), Persona("p2", "Student")>>
    ELSE IF q = QB THEN <<Persona("p1", "Professional"), Persona("p3", "Gamer")>>
    ELSE <<Persona("p2", "Student"), Persona("p3", "Gamer")>>

\* data.suggestedPersona of the record returned for a query; the parsed record is not
\* validated, and the one for QC names a persona that is not in its list
SuggestedOf(q) == IF q = QA THEN "p1" ELSE IF q = QB THEN "p3" ELSE "p4"

\* the ComparisonData the service returns for a query
DataOf(q) == [products |-> q, personas |-> PersonasOf(q), suggestedPersona |-> SuggestedOf(q)]

\* AnalysisResult returned by compareProducts
AnalysisResult(q, outcome, t) ==
    [query |-> q, timestamp |-> t,
     data |-> IF outcome = "structured" THEN DataOf(q) ELSE Null,
     rawText |-> IF outcome = "structured" THEN Undefined ELSE "raw text",
     id |-> -1, savedAt |-> -1]

StoredSaved ==
    { <<>>,
      << [AnalysisResult(QB, "structured", 0) EXCEPT !.id = 0, !.savedAt = 0] >> }

\* value of the history variable: handler, query argument, list position, saved before
Ran(op, q, i, was) == [op |-> op, q |-> q, i |-> i, was |-> was]

\* ComparisonResults before it is rendered: no component state, no request
Unmounted ==
    /\ selectedPersona = NoPersona
    /\ personaResult = Null
    /\ loadingPersona = FALSE
    /\ personaInflight = <<>>

\* the rows of a comparison table and the marks a row can carry
Rows == 1..MaxRows

Marks == {"up", "down"}

\* {}: no row is marked
NoFeedback == [idx \in Rows |-> "none"]

\* localStorage.getItem('feedback_' + timestamp) of a storage with the mappings stored
StoredFeedback(mappings) ==
    [t \in 0..MaxTime |->
        IF t \in DOMAIN mappings THEN [present |-> TRUE, mapping |-> mappings[t]]
        ELSE [present |-> FALSE, mapping |-> NoFeedback]]

\* a string stored under a key of localStorage, by what JSON.parse makes of it; a list
\* comes with its items
Item(kind, items) == [kind |-> kind, items |-> items]

\* getItem gives null: the key is not there
Absent == Item("absent", <<>>)

ItemKinds == {"absent", "empty", "invalid", "null", "number", "object"}

\* what may be stored under a key whose well-formed values are the given lists
StoredItems(lists) ==
    {Item(kind, <<>>) : kind \in ItemKinds} \cup {Item("list", items) : items \in lists}

\* useState({ searches: 0, savedCount: 0, trend: '0%' })
InitialStats == [searches |-> 0, savedCount |-> 0, trend |-> "0%"]

\* the first render: no effect has run, the component is not there
Quiet ==
    /\ prefetched = Null
    /\ rowFeedback = NoFeedback
    /\ statsPeriod = "7d"
    /\ realStats = InitialStats

\* the App function has run; what the session leaves in the two stored lists is not
\* followed
Loaded ==
    /\ boot = "running"
    /\ lsHistory = Absent
    /\ lsSaved = Absent

\* nothing has happened yet in the session, and no feedback is stored
Fresh ==
    /\ Quiet
    /\ Loaded
    /\ feedbackStore = StoredFeedback(<<>>)

\* the state after construction (first render), for given storage content and URL
Start(storedHistory, storedSaved, param, pushStateWorks) ==
    /\ query = ""
    /\ loadingState = IDLE
    /\ result = Null
    /\ error = NoError
    /\ now = 1
    /\ history = loadHistory(storedHistory, 1)
    /\ savedComparisons = storedSaved
    /\ view = "home"
    /\ urlQ = param
    /\ urlOk = pushStateWorks
    /\ mounted = FALSE
    /\ inflight = <<>>
    /\ last = Ran("init", "", 0, FALSE)

Init ==
    \E storedHistory \in {<<>>, <<Str(QB), Str(QA)>>, <<Str(QA), Str(QA)>>},
       storedSaved \in StoredSaved,
       param \in {NoParam, " ", QA}, pushStateWorks \in BOOLEAN :
        /\ Start(storedHistory, storedSaved, param, pushStateWorks)
        /\ response = NoResponse /\ storageOk = TRUE
        /\ Unmounted /\ preferredPersonaId = NoPersona
        /\ Fresh

\* start-up of the session for the history ledger: any stored list, no deep link
InitLedger ==
    \E storedHistory \in StoredHistories :
        /\ Start(storedHistory, <<>>, NoParam, TRUE)
        /\ response = NoResponse /\ storageOk = TRUE
        /\ Unmounted /\ preferredPersonaId = NoPersona
        /\ Fresh

\* start-up of the session for the saved comparisons: any stored bookmarks
InitSaved ==
    \E storedSaved \in StoredSaved :
        /\ Start(<<>>, storedSaved, NoParam, TRUE)
        /\ response = NoResponse /\ storageOk = TRUE
        /\ Unmounted /\ preferredPersonaId = NoPersona
        /\ Fresh

----------------------------------------------------------------------------
(* Pure parts of the handlers *)

\* variant: the caught error is shown verbatim
ErrorMessage_Verbatim(err) == err

\* setError("Ocorreu um erro ..."), whatever err was caught
ErrorMessage(err) == GenericError

\* const finalQuery = searchQuery || query
FinalQuery(searchQuery, q) == IF Falsy(searchQuery) THEN q ELSE searchQuery

\* variant: the address bar is never written
PushStateSet_Never(v) == urlQ

\* url.searchParams.set('q', v); pushState(...) inside try/catch
PushStateSet(v) == IF urlOk THEN v ELSE urlQ

\* url.searchParams.delete('q'); pushState(...) inside try/catch
PushStateDelete == IF urlOk THEN NoParam ELSE urlQ

\* variant: the new entry is prepended without removing the older one of the same query
RecordHistory_NoFilter(prev, q, t) ==
    Slice(<<[query |-> q, timestamp |-> t]>> \o prev, MAX_HISTORY)

\* setHistory(prev => [newItem, ...prev.filter(item => item.query !== finalQuery)].slice(0, 20))
RecordHistory(prev, q, t) ==
    LET keep(item) == item.query # q
    IN Slice(<<[query |-> q, timestamp |-> t]>> \o SelectSeq(prev, keep), MAX_HISTORY)

\* item.query === result.query && item.timestamp === result.timestamp
SameIdentity(item, r) == item.query = r.query /\ item.timestamp = r.timestamp

\* savedComparisons.findIndex(...): the first matching position, 0 when there is none
FindIndex(list, r) ==
    IF \E i \in 1..Len(list) : SameIdentity(list[i], r)
    THEN CHOOSE i \in 1..Len(list) :
            /\ SameIdentity(list[i], r)
            /\ \A j \in 1..(i - 1) : ~SameIdentity(list[j], r)
    ELSE 0

\* isCurrentResultSaved
IsSaved(list, r) ==
    IF r # Null THEN \E i \in 1..Len(list) : SameIdentity(list[i], r) ELSE FALSE

\* the state update one toggleSave call enqueues, applied to the list prev:
\* prev.filter((_, i) => i !== existingIndex), or [toSave, ...prev]
ToggleUpdate(prev, existingIndex, r, uuid, t) ==
    IF existingIndex >= 1
    THEN IF existingIndex <= Len(prev) THEN RemoveAt(prev, existingIndex) ELSE prev
    ELSE <<[r EXCEPT !.id = uuid, !.savedAt = t]>> \o prev

\* updateSuggestions(inputValue): the list offered under the input field
Suggestions(inputValue) ==
    IF Blank(inputValue)
    THEN <<>>
    ELSE LET combined == Dedup(Queries(history) \o presetSuggestions)
             match(item) == IncludesLower(item, inputValue) /\ item # inputValue
         IN Slice(SelectSeq(combined, match), 5)


----------------------------------------------------------------------------
(* handleSearch, up to the await of compareProducts.  q0 is the input      *)
(* field as the caller left it (a caller's setQuery runs before the call). *)

handleSearch(searchQuery, q0) ==
    LET finalQuery == FinalQuery(searchQuery, q0)
    IN /\ last' = Ran("handleSearch", finalQuery, 0, FALSE)
       /\ IF Blank(finalQuery)
          THEN /\ query' = q0
               /\ UNCHANGED <<loadingState, result, error, history, savedComparisons,
                              view, urlQ, inflight>>
          ELSE /\ Len(inflight) < MaxInFlight
               /\ query' = finalQuery
               /\ loadingState' = LOADING
               /\ error' = NoError
               /\ result' = Null
               /\ view' = "home"
               /\ urlQ' = PushStateSet(finalQuery)
               /\ inflight' = Append(inflight, finalQuery)
               /\ UNCHANGED <<history, savedComparisons>>

\* variant: the q parameter is ignored on mount
Mount_NoDeepLink ==
    /\ ~mounted
    /\ mounted' = TRUE
    /\ last' = Ran("other", "", 0, FALSE)
    /\ UNCHANGED <<query, loadingState, result, error, history,
                   savedComparisons, view, urlQ, inflight, urlOk, now>>

\* useEffect(..., []) : deep linking on mount
Mount ==
    /\ ~mounted
    /\ mounted' = TRUE
    /\ IF urlQ \notin {NoParam, ""}
       THEN handleSearch(urlQ, urlQ)
       ELSE /\ last' = Ran("other", "", 0, FALSE)
            /\ UNCHANGED <<query, loadingState, result, error, history,
                           savedComparisons, view, urlQ, inflight>>
    /\ UNCHANGED <<urlOk, now>>

\* <form onSubmit={(e) => handleSearch(e)}>, the input being enabled
SubmitForm ==
    /\ mounted /\ view = "home" /\ loadingState # LOADING
    /\ handleSearch(Undefined, query)
    /\ UNCHANGED <<urlOk, mounted, now>>

\* examples.map(ex => <button onClick={() => handleSearch(undefined, ex)}>), Leaderboard onSelect
ClickExample(ex) ==
    /\ mounted /\ view = "home" /\ result = Null /\ loadingState = IDLE
    /\ handleSearch(ex, ex)
    /\ UNCHANGED <<urlOk, mounted, now>>

\* history.slice(0, 5).map(item => <button onClick={() => handleSearch(undefined, item.query)}>)
ClickHistoryItem(i) ==
    /\ mounted /\ view = "home" /\ result = Null /\ loadingState = IDLE
    /\ i \in 1..Min(5, Len(history))
    /\ handleSearch(history[i].query, query)
    /\ UNCHANGED <<urlOk, mounted, now>>

\* handleSuggestionClick(suggestion): a click in the list under the enabled input field
handleSuggestionClick(i) ==
    /\ mounted /\ view = "home" /\ loadingState # LOADING
    /\ i \in 1..Len(Suggestions(query))
    /\ handleSearch(Suggestions(query)[i], Suggestions(query)[i])
    /\ UNCHANGED <<urlOk, mounted, now>>

\* handleInputChange
handleInputChange(val) ==
    /\ mounted /\ view = "home" /\ loadingState # LOADING
    /\ val # query
    /\ query' = val
    /\ last' = Ran("other", "", 0, FALSE)
    /\ UNCHANGED <<loadingState, result, error, history, savedComparisons, view, urlQ,
                   urlOk, mounted, inflight, now>>

----------------------------------------------------------------------------
(* compareProducts: from the answer of the generative model to the         *)
(* AnalysisResult.  A text is a sequence over a four-letter alphabet:      *)
(* the two braces, "m" for one well-formed member ("key": value) and "p"   *)
(* for any other character.                                                *)

Alphabet == {"{", "}", "m", "p"}

Texts == UNION {[1..n -> Alphabet] : n \in 0..MaxText}

\* rawText: undefined
NoText == [undefined |-> TRUE]

\* String.prototype.match found nothing
NoMatch == [nomatch |-> TRUE]

\* the position of the first "{", 0 when there is none
FirstOpen(text) ==
    IF \E i \in 1..Len(text) : text[i] = "{"
    THEN CHOOSE i \in 1..Len(text) :
            text[i] = "{" /\ \A j \in 1..(i - 1) : text[j] # "{"
    ELSE 0

\* the position of the last "}", 0 when there is none
LastClose(text) ==
    IF \E i \in 1..Len(text) : text[i] = "}"
    THEN CHOOSE i \in 1..Len(text) :
            text[i] = "}" /\ \A j \in (i + 1)..Len(text) : text[j] # "}"
    ELSE 0

\* text.match(/\{[\s\S]*\}/): the leftmost "{" up to the last "}" after it
Match(text) ==
    IF FirstOpen(text) > 0 /\ LastClose(text) > FirstOpen(text)
    THEN [span |-> SubSeq(text, FirstOpen(text), LastClose(text))]
    ELSE NoMatch

\* JSON.parse on a span that starts with "{": the object, or a SyntaxError
JSONParse(span) ==
    IF span = <<"{", "}">> THEN [ok |-> TRUE, value |-> [members |-> 0]]
    ELSE IF span = <<"{", "m", "}">> THEN [ok |-> TRUE, value |-> [members |-> 1]]
    ELSE [ok |-> FALSE, value |-> Null]

\* the text of a record, as the model is asked to write it
JSONStringify(value) ==
    IF value.members = 0 THEN <<"{", "}">> ELSE <<"{", "m", "}">>

JSONValues == {[members |-> 0], [members |-> 1]}

\* try { jsonMatch = text.match(...); if (jsonMatch) jsonData = JSON.parse(jsonMatch[0]) } catch {}
ExtractJSON(text) ==
    LET jsonMatch == Match(text)
    IN IF jsonMatch = NoMatch THEN Null
       ELSE IF JSONParse(jsonMatch.span).ok THEN JSONParse(jsonMatch.span).value
       ELSE Null

\* a grounding chunk: with or without a web reference, whose title and uri may be missing
Chunk(web, title, uri) == [web |-> web, title |-> title, uri |-> uri]

ChunkKinds ==
    { Chunk(FALSE, Undefined, Undefined),
      Chunk(TRUE, "Title", "https://a"),
      Chunk(TRUE, Undefined, "https://b"),
      Chunk(TRUE, "", "https://c"),
      Chunk(TRUE, "Title", Undefined) }

ChunkLists == UNION {[1..n -> ChunkKinds] : n \in 0..MaxChunks}

\* groundingChunks.forEach(chunk => { if (chunk.web) sources.push({title: ... || "Fonte Web", uri}) })
Sources(chunks) ==
    LET hasWeb(chunk) == chunk.web
        kept == SelectSeq(chunks, hasWeb)
    IN [i \in 1..Len(kept) |->
          [title |-> IF Falsy(kept[i].title) THEN "Fonte Web" ELSE kept[i].title,
           uri |-> kept[i].uri]]

\* variant: an unstructured answer carries only the matched span as rawText
compareProducts_SpanText(q, resp, t) ==
    LET jsonData == ExtractJSON(resp.text)
    IN [query |-> q, timestamp |-> t,
        data |-> jsonData,
        sources |-> Sources(resp.chunks),
        rawText |-> IF jsonData # Null THEN NoText
                    ELSE IF Match(resp.text) = NoMatch THEN [text |-> resp.text]
                    ELSE [text |-> Match(resp.text).span],
        id |-> -1, savedAt |-> -1]

\* variant: the text of the answer is carried by every result
compareProducts_KeepText(q, resp, t) ==
    [query |-> q, timestamp |-> t,
     data |-> ExtractJSON(resp.text),
     sources |-> Sources(resp.chunks),
     rawText |-> [text |-> resp.text],
     id |-> -1, savedAt |-> -1]

\* return { data: jsonData, sources, rawText: !jsonData ? text : undefined, query, timestamp }
compareProducts(q, resp, t) ==
    LET jsonData == ExtractJSON(resp.text)
    IN [query |-> q, timestamp |-> t,
        data |-> jsonData,
        sources |-> Sources(resp.chunks),
        rawText |-> IF jsonData = Null THEN [text |-> resp.text] ELSE NoText,
        id |-> -1, savedAt |-> -1]

\* what the generative model may answer: any text without citations, or a well-formed
\* record with any list of citation chunks
Responses ==
    {[text |-> text, chunks |-> <<>>] : text \in Texts}
        \cup {[text |-> <<"{", "}">>, chunks |-> chunks] : chunks \in ChunkLists}

----------------------------------------------------------------------------
(* handleSearch after the await: compareProducts resolves or rejects *)

\* const data = await compareProducts(finalQuery); setResult; setLoadingState; setHistory
CompareResolved(i, outcome) ==
    /\ i \in 1..Len(inflight)
    /\ result' = AnalysisResult(inflight[i], outcome, now)
    /\ loadingState' = SUCCESS
    /\ history' = RecordHistory(history, inflight[i], now)
    /\ inflight' = RemoveAt(inflight, i)
    /\ last' = Ran("resolved", inflight[i], i, FALSE)
    /\ UNCHANGED <<query, error, savedComparisons, view,
                   urlQ, urlOk, mounted, now>>

\* variant: an answer without a structured record is treated as a failure
CompareResponded_RejectRaw(i) ==
    /\ i \in 1..Len(inflight)
    /\ IF compareProducts(inflight[i], response, now).data = Null
       THEN /\ error' = GenericError
            /\ loadingState' = ERROR
            /\ UNCHANGED <<result, history>>
       ELSE /\ result' = compareProducts(inflight[i], response, now)
            /\ loadingState' = SUCCESS
            /\ history' = RecordHistory(history, inflight[i], now)
            /\ UNCHANGED error
    /\ inflight' = RemoveAt(inflight, i)
    /\ last' = Ran("resolved", inflight[i], i, FALSE)
    /\ UNCHANGED <<query, savedComparisons, view, urlQ, urlOk, mounted, now>>

\* the same continuation with the service's answer spelled out:
\* const data = await compareProducts(finalQuery); setResult; setLoadingState; setHistory
CompareResponded(i) ==
    /\ i \in 1..Len(inflight)
    /\ result' = compareProducts(inflight[i], response, now)
    /\ loadingState' = SUCCESS
    /\ history' = RecordHistory(history, inflight[i], now)
    /\ inflight' = RemoveAt(inflight, i)
    /\ last' = Ran("resolved", inflight[i], i, FALSE)
    /\ UNCHANGED <<query, error, savedComparisons, view,
                   urlQ, urlOk, mounted, now>>

\* variant: a rejected request is entered in the history as well
CompareRejected_Recording(i, cause) ==
    /\ i \in 1..Len(inflight)
    /\ error' = ErrorMessage(cause)
    /\ loadingState' = ERROR
    /\ history' = RecordHistory(history, inflight[i], now)
    /\ inflight' = RemoveAt(inflight, i)
    /\ last' = Ran("rejected", inflight[i], i, FALSE)
    /\ UNCHANGED <<query, result, savedComparisons, view, urlQ, urlOk, mounted, now>>

\* variant: the rejection sets the message and leaves the loading state
CompareRejected_KeepLoading(i, cause) ==
    /\ i \in 1..Len(inflight)
    /\ error' = ErrorMessage(cause)
    /\ inflight' = RemoveAt(inflight, i)
    /\ last' = Ran("rejected", inflight[i], i, FALSE)
    /\ UNCHANGED <<query, loadingState, result, history,
                   savedComparisons, view, urlQ, urlOk, mounted, now>>

\* catch (err) { setError(...); setLoadingState(LoadingState.ERROR) }
CompareRejected(i, cause) ==
    /\ i \in 1..Len(inflight)
    /\ error' = ErrorMessage(cause)
    /\ loadingState' = ERROR
    /\ inflight' = RemoveAt(inflight, i)
    /\ last' = Ran("rejected", inflight[i], i, FALSE)
    /\ UNCHANGED <<query, result, history,
                   savedComparisons, view, urlQ, urlOk, mounted, now>>

----------------------------------------------------------------------------
(* Saved comparisons *)

\* crypto.randomUUID(): an id no object of the session carries
randomUUID(used) ==
    CHOOSE n \in 0..Cardinality(used) :
        n \notin used /\ \A m \in 0..(n - 1) : m \in used

IdsOf(list) == {list[i].id : i \in 1..Len(list)}

\* variant: a result without a record is saved like any other
toggleSave_Unguarded(calls) ==
    /\ mounted
    /\ calls \in 1..2
    /\ IF result = Null
       THEN /\ calls = 1
            /\ last' = Ran("toggleSave", "", 0, FALSE)
            /\ UNCHANGED savedComparisons
       ELSE LET existingIndex == FindIndex(savedComparisons, result)
                used == IdsOf(savedComparisons) \cup {result.id}
                uuid1 == randomUUID(used)
                uuid2 == randomUUID(used \cup {uuid1})
                first == ToggleUpdate(savedComparisons, existingIndex, result, uuid1, now)
                second == ToggleUpdate(first, existingIndex, result, uuid2, now)
                after == IF calls = 1 THEN first ELSE second
            IN /\ loadingState = SUCCESS /\ view = "home"
               /\ Len(after) <= MaxSaved
               /\ savedComparisons' = after
               /\ last' = Ran(IF calls = 1 THEN "toggleSave" ELSE "toggleSaveTwice", result.query,
                              0, IsSaved(savedComparisons, result))
    /\ UNCHANGED <<query, loadingState, result, error, history, view, urlQ, urlOk,
                   mounted, inflight, now>>

\* toggleSave, called `calls` times by one rendered closure before the next render:
\* each call reads the same savedComparisons and result; the updates apply in order
toggleSave(calls) ==
    /\ mounted
    /\ calls \in 1..2
    /\ IF result = Null \/ result.data = Null
       THEN /\ calls = 1
            /\ last' = Ran("toggleSave", "", 0, FALSE)
            /\ UNCHANGED savedComparisons
       ELSE LET existingIndex == FindIndex(savedComparisons, result)
                used == IdsOf(savedComparisons) \cup {result.id}
                uuid1 == randomUUID(used)
                uuid2 == randomUUID(used \cup {uuid1})
                first == ToggleUpdate(savedComparisons, existingIndex, result, uuid1, now)
                second == ToggleUpdate(first, existingIndex, result, uuid2, now)
                after == IF calls = 1 THEN first ELSE second
            IN /\ loadingState = SUCCESS /\ view = "home"
               /\ Len(after) <= MaxSaved
               /\ savedComparisons' = after
               /\ last' = Ran(IF calls = 1 THEN "toggleSave" ELSE "toggleSaveTwice", result.query,
                              0, IsSaved(savedComparisons, result))
    /\ UNCHANGED <<query, loadingState, result, error, history, view, urlQ, urlOk,
                   mounted, inflight, now>>

\* variant: the bookmark is shown without setting the loading state
loadSaved_KeepState(i) ==
    /\ mounted /\ view = "saved"
    /\ i \in 1..Len(savedComparisons)
    /\ result' = savedComparisons[i]
    /\ query' = savedComparisons[i].query
    /\ view' = "home"
    /\ last' = Ran("loadSaved", savedComparisons[i].query, i, FALSE)
    /\ UNCHANGED <<loadingState, error, history, savedComparisons, urlQ,
                   urlOk, mounted, inflight, now>>

\* variant: loading a bookmark counts as a search, recorded at the head of the history
loadSaved_Recording(i) ==
    /\ mounted /\ view = "saved"
    /\ i \in 1..Len(savedComparisons)
    /\ result' = savedComparisons[i]
    /\ query' = savedComparisons[i].query
    /\ loadingState' = SUCCESS
    /\ view' = "home"
    /\ history' = <<[query |-> savedComparisons[i].query, timestamp |-> now]>> \o history
    /\ last' = Ran("loadSaved", savedComparisons[i].query, i, FALSE)
    /\ UNCHANGED <<error, savedComparisons, urlQ, urlOk, mounted, inflight, now>>

\* loadSaved(saved), from the saved view
loadSaved(i) ==
    /\ mounted /\ view = "saved"
    /\ i \in 1..Len(savedComparisons)
    /\ result' = savedComparisons[i]
    /\ query' = savedComparisons[i].query
    /\ loadingState' = SUCCESS
    /\ view' = "home"
    /\ last' = Ran("loadSaved", savedComparisons[i].query, i, FALSE)
    /\ UNCHANGED <<error, history, savedComparisons, urlQ,
                   urlOk, mounted, inflight, now>>

\* deleteSaved(id, e), from the saved view
deleteSaved(i) ==
    /\ mounted /\ view = "saved"
    /\ i \in 1..Len(savedComparisons)
    /\ LET keep(item) == item.id # savedComparisons[i].id
       IN savedComparisons' = SelectSeq(savedComparisons, keep)
    /\ last' = Ran("other", "", 0, FALSE)
    /\ UNCHANGED <<query, loadingState, result, error,
                   history, view, urlQ, urlOk, mounted, inflight, now>>

----------------------------------------------------------------------------
(* History ledger edits, shown on the idle home page only *)

clearHistory ==
    /\ mounted /\ view = "home" /\ result = Null /\ loadingState = IDLE
    /\ Len(history) > 0
    /\ history' = <<>>
    /\ last' = Ran("other", "", 0, FALSE)
    /\ UNCHANGED <<query, loadingState, result, error,
                   savedComparisons, view, urlQ, urlOk, mounted, inflight, now>>

deleteHistoryItem(i) ==
    /\ mounted /\ view = "home" /\ result = Null /\ loadingState = IDLE
    /\ i \in 1..Min(5, Len(history))
    /\ LET keep(item) == item.query # history[i].query
       IN history' = SelectSeq(history, keep)
    /\ last' = Ran("other", "", 0, FALSE)
    /\ UNCHANGED <<query, loadingState, result, error,
                   savedComparisons, view, urlQ, urlOk, mounted, inflight, now>>

----------------------------------------------------------------------------
(* Navigation *)

\* variant: the reset leaves the page in the SUCCESS state
LogoClick_Success ==
    /\ mounted
    /\ view' = "home"
    /\ result' = Null
    /\ query' = ""
    /\ loadingState' = SUCCESS
    /\ urlQ' = PushStateDelete
    /\ last' = Ran("logo", "", 0, FALSE)
    /\ UNCHANGED <<error, history, savedComparisons,
                   urlOk, mounted, inflight, now>>

\* the logo's onClick: back to the idle home page
LogoClick ==
    /\ mounted
    /\ view' = "home"
    /\ result' = Null
    /\ query' = ""
    /\ loadingState' = IDLE
    /\ urlQ' = PushStateDelete
    /\ last' = Ran("logo", "", 0, FALSE)
    /\ UNCHANGED <<error, history, savedComparisons,
                   urlOk, mounted, inflight, now>>

\* onClick={() => setView(view === 'home' ? 'saved' : 'home')}
ToggleView ==
    /\ mounted
    /\ view' = IF view = "home" THEN "saved" ELSE "home"
    /\ last' = Ran("other", "", 0, FALSE)
    /\ UNCHANGED <<query, loadingState, result, error,
                   history, savedComparisons, urlQ, urlOk, mounted, inflight, now>>

\* the clock read by Date.now() advances
Tick ==
    /\ now < MaxTime
    /\ now' = now + 1
    /\ UNCHANGED <<query, loadingState, result, error,
                   history, savedComparisons, view, urlQ, urlOk, mounted, inflight, last>>

----------------------------------------------------------------------------
(* ComparisonResults: persona pre-selection and persona analysis.  The     *)
(* component is rendered by App on the home view while loadingState is     *)
(* SUCCESS and result is set; its state is lost when it is unmounted, and  *)
(* the continuations of its pending requests then act on nothing.          *)

\* {loadingState === LoadingState.SUCCESS && result && <ComparisonResults .../>}
Shown == view = "home" /\ loadingState = SUCCESS /\ result # Null

\* the ids of data.personas; data?. gives nothing for a raw-text result
PersonaIds(data) ==
    IF data = Null THEN {} ELSE {data.personas[k].id : k \in 1..Len(data.personas)}

\* lines 61-65: the stored preference if it is one of the personas, else the suggestion
PersonaIdToSelect(savedPersona, data) ==
    IF savedPersona \notin {NoPersona, ""} /\ savedPersona \in PersonaIds(data)
    THEN savedPersona
    ELSE IF data # Null /\ ~Falsy(data.suggestedPersona)
         THEN data.suggestedPersona
         ELSE NoPersona

\* data.personas.find(p => p.id === id), for an id of PersonaIds(data)
FindPersona(id, data) ==
    data.personas[CHOOSE k \in 1..Len(data.personas) :
                      /\ data.personas[k].id = id
                      /\ \A j \in 1..(k - 1) : data.personas[j].id # id]

\* a pending getPersonaAnalysis(data, personaLabel) call, with the id it was made for
PersonaCall(id, label, data) == [id |-> id, label |-> label, data |-> data]

\* the {winner, reason} object the service writes for a call
PersonaAnswer(call) == [winner |-> call.data.products, persona |-> call.label, data |-> call.data]

\* what the service may reply to a call: nothing (the call fails), or a text that holds
\* the object, holds no brace span, or holds a brace span that is not JSON
PersonaTexts == {<<"{", "m", "}">>, <<"{", "p", "}">>}

PersonaReplies ==
    {[failed |-> TRUE, text |-> <<>>]} \cup {[failed |-> FALSE, text |-> t] : t \in PersonaTexts}

\* getPersonaAnalysis: const jsonMatch = text.match(/\{[\s\S]*\}/);
\* if (jsonMatch) return JSON.parse(jsonMatch[0]); return {winner: "Indeterminado", reason: text};
\* every exception is rethrown
getPersonaAnalysis(call, reply) ==
    IF reply.failed THEN [rejected |-> TRUE, value |-> Null]
    ELSE LET jsonMatch == Match(reply.text)
         IN IF jsonMatch # NoMatch
            THEN IF JSONParse(jsonMatch.span).ok
                 THEN [rejected |-> FALSE, value |-> PersonaAnswer(call)]
                 ELSE [rejected |-> TRUE, value |-> Null]
            ELSE [rejected |-> FALSE,
                  value |-> [PersonaAnswer(call) EXCEPT !.winner = "Indeterminado"]]

\* variant: the analysis shown before the click stays until the new one arrives
SelectPersona_KeepResult(label, id, data, pending) ==
    /\ Len(pending) < MaxPersonaCalls
    /\ selectedPersona' = id
    /\ preferredPersonaId' = IF storageOk THEN id ELSE preferredPersonaId
    /\ loadingPersona' = TRUE
    /\ personaResult' = personaResult
    /\ personaInflight' = Append(pending, PersonaCall(id, label, data))

\* handlePersonaSelect(personaLabel, personaId) up to its await, in a component whose
\* pending calls are `pending`; a failing localStorage.setItem is caught and skipped
SelectPersona(label, id, data, pending) ==
    /\ Len(pending) < MaxPersonaCalls
    /\ selectedPersona' = id
    /\ preferredPersonaId' = IF storageOk THEN id ELSE preferredPersonaId
    /\ loadingPersona' = TRUE
    /\ personaResult' = Null
    /\ personaInflight' = Append(pending, PersonaCall(id, label, data))

\* the identity of a result: its query and its timestamp
RecordKey(r) == [query |-> r.query, timestamp |-> r.timestamp]

\* variant: the suggestion of the record wins over the stored preference
LoadPersistence_SuggestionFirst(mountedBefore) ==
    LET data == result'.data
        id == IF data # Null THEN data.suggestedPersona ELSE NoPersona
        cached == IF mountedBefore THEN personaResult ELSE Null
        pending == IF mountedBefore THEN personaInflight ELSE <<>>
    IN IF storageOk /\ id # NoPersona /\ id \in PersonaIds(data)
       THEN IF cached = Null
            THEN /\ SelectPersona(FindPersona(id, data).label, id, data, pending)
                 /\ prefetched' = RecordKey(result')
            ELSE /\ selectedPersona' = id
                 /\ UNCHANGED <<personaResult, loadingPersona, personaInflight,
                                preferredPersonaId, prefetched>>
       ELSE /\ selectedPersona' = IF mountedBefore THEN selectedPersona ELSE NoPersona
            /\ personaResult' = cached
            /\ loadingPersona' = IF mountedBefore THEN loadingPersona ELSE FALSE
            /\ personaInflight' = pending
            /\ UNCHANGED <<preferredPersonaId, prefetched>>

\* variant: the effect requests the analysis whether or not one is held
LoadPersistence_IgnoreCache(mountedBefore) ==
    LET data == result'.data
        id == PersonaIdToSelect(preferredPersonaId, data)
        pending == IF mountedBefore THEN personaInflight ELSE <<>>
    IN IF storageOk /\ id # NoPersona /\ data # Null /\ id \in PersonaIds(data)
       THEN /\ SelectPersona(FindPersona(id, data).label, id, data, pending)
            /\ prefetched' = RecordKey(result')
       ELSE /\ selectedPersona' = IF mountedBefore THEN selectedPersona ELSE NoPersona
            /\ personaResult' = IF mountedBefore THEN personaResult ELSE Null
            /\ loadingPersona' = IF mountedBefore THEN loadingPersona ELSE FALSE
            /\ personaInflight' = pending
            /\ UNCHANGED <<preferredPersonaId, prefetched>>

\* useEffect(..., [data, timestamp]), part 1 (load persona), run for the result of the
\* next state; mountedBefore tells whether the component keeps the state it had.  The
\* whole effect is one try block that starts with localStorage.getItem: when the storage
\* throws, the catch logs and nothing of the effect is done.
LoadPersistence(mountedBefore) ==
    LET data == result'.data
        id == PersonaIdToSelect(preferredPersonaId, data)
        cached == IF mountedBefore THEN personaResult ELSE Null
        pending == IF mountedBefore THEN personaInflight ELSE <<>>
    IN IF storageOk /\ id # NoPersona /\ data # Null /\ id \in PersonaIds(data)
       THEN IF cached = Null
            THEN /\ SelectPersona(FindPersona(id, data).label, id, data, pending)
                 /\ prefetched' = RecordKey(result')
            ELSE /\ selectedPersona' = id
                 /\ UNCHANGED <<personaResult, loadingPersona, personaInflight,
                                preferredPersonaId, prefetched>>
       ELSE /\ selectedPersona' = IF mountedBefore THEN selectedPersona ELSE NoPersona
            /\ personaResult' = cached
            /\ loadingPersona' = IF mountedBefore THEN loadingPersona ELSE FALSE
            /\ personaInflight' = pending
            /\ UNCHANGED <<preferredPersonaId, prefetched>>

\* what a step of App does to the persona state of ComparisonResults: unmount it, leave
\* it alone, or mount it or hand it a new result, which runs the effect; newResult tells
\* whether the step set a new result object
RenderPersona(newResult) ==
    IF ~Shown'
    THEN /\ selectedPersona' = NoPersona
         /\ personaResult' = Null
         /\ loadingPersona' = FALSE
         /\ personaInflight' = <<>>
         /\ UNCHANGED <<preferredPersonaId, prefetched>>
    ELSE IF Shown /\ ~newResult
         THEN UNCHANGED <<personaVars, prefetched>>
         ELSE LoadPersistence(Shown)

\* useEffect(..., [data, timestamp]), part 2 (load feedback): the mapping stored for the
\* timestamp of the result is put in the state; when none is stored, or the storage
\* throws, the state is left as it is
LoadFeedback(mountedBefore) ==
    LET item == feedbackStore[result'.timestamp]
    IN rowFeedback' = IF storageOk /\ item.present THEN item.mapping
                      ELSE IF mountedBefore THEN rowFeedback
                      ELSE NoFeedback

\* what a step of App does to the row feedback of ComparisonResults
RenderFeedback(newResult) ==
    /\ IF ~Shown'
       THEN rowFeedback' = NoFeedback
       ELSE IF Shown /\ ~newResult
            THEN UNCHANGED rowFeedback
            ELSE LoadFeedback(Shown)
    /\ UNCHANGED feedbackStore

\* a step of App seen with the persona state of the component it renders
Render(newResult) ==
    /\ UNCHANGED <<envVars, feedbackVars, sideVars>>
    /\ RenderPersona(newResult)

\* a step of App seen with the row feedback of the component it renders
RenderRows(newResult) ==
    /\ UNCHANGED <<envVars, personaVars, prefetched, sideVars>>
    /\ RenderFeedback(newResult)

\* handleRowFeedback(idx, type): newFeedback = {...rowFeedback, [idx]: type};
\* setRowFeedback(newFeedback); try { localStorage.setItem('feedback_' + timestamp, ...) } catch {}
handleRowFeedback(idx, type) ==
    /\ Shown /\ result.data # Null
    /\ rowFeedback' = [rowFeedback EXCEPT ![idx] = type]
    /\ feedbackStore' =
          IF storageOk
          THEN [feedbackStore EXCEPT ![result.timestamp] =
                   [present |-> TRUE, mapping |-> [rowFeedback EXCEPT ![idx] = type]]]
          ELSE feedbackStore
    /\ last' = Ran("handleRowFeedback", type, idx, FALSE)
    /\ UNCHANGED <<query, loadingState, result, error, history, savedComparisons, view,
                   urlQ, urlOk, mounted, inflight, now, envVars, personaVars, prefetched,
                   sideVars>>

\* a click on the k-th persona button
handlePersonaSelect(k) ==
    /\ Shown /\ result.data # Null
    /\ k \in 1..Len(result.data.personas)
    /\ SelectPersona(result.data.personas[k].label, result.data.personas[k].id,
                     result.data, personaInflight)
    /\ last' = Ran("handlePersonaSelect", result.data.personas[k].id, k, FALSE)
    /\ UNCHANGED <<query, loadingState, result, error, history, savedComparisons, view,
                   urlQ, urlOk, mounted, inflight, now, envVars, prefetched, feedbackVars,
                   sideVars>>

\* const result = await getPersonaAnalysis(data, personaLabel); setPersonaResult(result);
\* finally setLoadingPersona(false)
PersonaResolved(i, reply) ==
    /\ i \in 1..Len(personaInflight)
    /\ ~getPersonaAnalysis(personaInflight[i], reply).rejected
    /\ personaResult' = getPersonaAnalysis(personaInflight[i], reply).value
    /\ loadingPersona' = FALSE
    /\ personaInflight' = RemoveAt(personaInflight, i)
    /\ last' = Ran("personaResolved", personaInflight[i].id, i, FALSE)
    /\ UNCHANGED <<query, loadingState, result, error, history, savedComparisons, view,
                   urlQ, urlOk, mounted, inflight, now, envVars,
                   selectedPersona, preferredPersonaId, prefetched, feedbackVars,
                   sideVars>>

\* the call throws: catch (error) { console.error(error) } finally { setLoadingPersona(false) }
PersonaRejected(i, reply) ==
    /\ i \in 1..Len(personaInflight)
    /\ getPersonaAnalysis(personaInflight[i], reply).rejected
    /\ loadingPersona' = FALSE
    /\ personaInflight' = RemoveAt(personaInflight, i)
    /\ last' = Ran("personaRejected", personaInflight[i].id, i, FALSE)
    /\ UNCHANGED <<query, loadingState, result, error, history, savedComparisons, view,
                   urlQ, urlOk, mounted, inflight, now, envVars,
                   selectedPersona, personaResult, preferredPersonaId, prefetched,
                   feedbackVars, sideVars>>

----------------------------------------------------------------------------
(* Page load and persistence of the two lists.  The useState initializers  *)
(* read the lists when the App function first runs; an exception in them   *)
(* or in the first effects is not caught by anything and takes the page    *)
(* down.  The effects write the lists back after every render that         *)
(* changed them, and once after the first render.                          *)

\* what JSON.parse returns for a stored string that is valid JSON
Parsed(type, items) == [type |-> type, items |-> items]

\* the fallback []
EmptyList == Parsed("list", <<>>)

\* safeGetItem: try { return localStorage.getItem(key) } catch { return null }
safeGetItem(item) == IF storageOk THEN item ELSE Absent

\* safeJSONParse: if (!value) return fallback;
\* try { return JSON.parse(value) } catch { return fallback }
safeJSONParse(value, fallback) ==
    IF value.kind \in {"absent", "empty"} THEN fallback
    ELSE IF value.kind = "invalid" THEN fallback
    ELSE Parsed(value.kind, value.items)

\* useState initializer of history: const raw = safeJSONParse(safeGetItem('searchHistory'), []);
\* if (raw.length > 0 && typeof raw[0] === 'string') return raw.map(...); return raw;
\* raw.length throws for null and is undefined for a number or an object
historyInitializer(item, t) ==
    LET raw == safeJSONParse(safeGetItem(item), EmptyList)
    IN IF raw.type = "null" THEN [threw |-> TRUE, value |-> raw]
       ELSE IF raw.type = "list"
            THEN [threw |-> FALSE, value |-> Parsed("list", loadHistory(raw.items, t))]
            ELSE [threw |-> FALSE, value |-> raw]

\* useState initializer of savedComparisons
savedInitializer(item) == safeJSONParse(safeGetItem(item), EmptyList)

\* JSON.stringify(history)
StringifyHistory(h) == Item("list", [i \in 1..Len(h) |-> Obj(h[i].query, h[i].timestamp)])

\* JSON.stringify(savedComparisons)
StringifySaved(list) == Item("list", list)

\* variant: only the history effect runs
Persist_HistoryOnly ==
    /\ lsHistory' = IF storageOk THEN StringifyHistory(history') ELSE lsHistory
    /\ lsSaved' = lsSaved

\* the two persist effects, for the lists of the next state
Persist ==
    /\ lsHistory' = IF storageOk THEN StringifyHistory(history') ELSE lsHistory
    /\ lsSaved' = IF storageOk THEN StringifySaved(savedComparisons') ELSE lsSaved

\* the App function runs for the first time after a page load: the initializers, the
\* first render and the first run of the persist effects; a list that is not an array
\* makes history.filter or savedComparisons.filter of calculateRealStats throw
Startup ==
    /\ boot = "pending"
    /\ LET loaded == historyInitializer(lsHistory, now)
           saved == savedInitializer(lsSaved)
       IN IF ~loaded.threw /\ loaded.value.type = "list" /\ saved.type = "list"
          THEN /\ boot' = "running"
               /\ history' = loaded.value.items
               /\ savedComparisons' = saved.items
               /\ Persist
          ELSE /\ boot' = "crashed"
               /\ UNCHANGED <<history, savedComparisons, lsHistory, lsSaved>>
    /\ last' = Ran("startup", "", 0, FALSE)
    /\ UNCHANGED <<query, loadingState, result, error, view, urlQ, urlOk, mounted,
                   inflight, now>>

\* the page is loaded again: the state of the App is gone, the storage and the URL stay
Reload ==
    /\ boot # "pending"
    /\ boot' = "pending"
    /\ query' = ""
    /\ loadingState' = IDLE
    /\ result' = Null
    /\ error' = NoError
    /\ history' = <<>>
    /\ savedComparisons' = <<>>
    /\ view' = "home"
    /\ mounted' = FALSE
    /\ inflight' = <<>>
    /\ last' = Ran("reload", "", 0, FALSE)
    /\ UNCHANGED <<urlQ, urlOk, now, lsHistory, lsSaved>>

----------------------------------------------------------------------------
(* The statistics panel.  Where the statistics are followed, the clock     *)
(* counts hours (Date.now() counts milliseconds).                          *)

Periods == {"24h", "7d", "30d"}

\* if (statsPeriod === '24h') duration = 24 * 60 * 60 * 1000; ... in hours
Duration(period) ==
    IF period = "24h" THEN 24
    ELSE IF period = "7d" THEN 7 * 24
    ELSE IF period = "30d" THEN 30 * 24
    ELSE 0

\* Math.round(num / den) for den > 0: the nearest integer, a half rounds up
MathRound(num, den) == (2 * num + den) \div (2 * den)

\* variant: an entry as old as the period still counts for the current period
calculateRealStats_Inclusive(h, period, saved, t) ==
    LET duration == Duration(period)
        inPeriod(item) == t - item.timestamp <= duration
        inPrevious(item) ==
            t - item.timestamp > duration /\ t - item.timestamp < duration * 2
        savedInPeriod(item) == t - item.savedAt < duration
        periodCount == Len(SelectSeq(h, inPeriod))
        previousPeriodCount == Len(SelectSeq(h, inPrevious))
        trendVal == IF previousPeriodCount = 0
                    THEN IF periodCount > 0 THEN 100 ELSE 0
                    ELSE MathRound((periodCount - previousPeriodCount) * 100,
                                   previousPeriodCount)
    IN [searches |-> periodCount,
        savedCount |-> Len(SelectSeq(saved, savedInPeriod)),
        trend |-> (IF trendVal >= 0 THEN "+" ELSE "") \o ToString(trendVal) \o "%"]

\* calculateRealStats, with what it reads: history, statsPeriod, savedComparisons, Date.now()
calculateRealStats(h, period, saved, t) ==
    LET duration == Duration(period)
        inPeriod(item) == t - item.timestamp < duration
        inPrevious(item) ==
            t - item.timestamp >= duration /\ t - item.timestamp < duration * 2
        savedInPeriod(item) == t - item.savedAt < duration
        periodCount == Len(SelectSeq(h, inPeriod))
        previousPeriodCount == Len(SelectSeq(h, inPrevious))
        trendVal == IF previousPeriodCount = 0
                    THEN IF periodCount > 0 THEN 100 ELSE 0
                    ELSE MathRound((periodCount - previousPeriodCount) * 100,
                                   previousPeriodCount)
    IN [searches |-> periodCount,
        savedCount |-> Len(SelectSeq(saved, savedInPeriod)),
        trend |-> (IF trendVal >= 0 THEN "+" ELSE "") \o ToString(trendVal) \o "%"]

\* useEffect(() => { ...; calculateRealStats() }, [history, statsPeriod, savedComparisons]),
\* run for the next state
Recount ==
    realStats' = calculateRealStats(history', statsPeriod', savedComparisons', now')

\* a click on a period button of the panel, which the idle home view shows
setStatsPeriod(p) ==
    /\ mounted /\ view = "home" /\ result = Null /\ loadingState = IDLE
    /\ p \in Periods /\ p # statsPeriod
    /\ statsPeriod' = p
    /\ last' = Ran("setStatsPeriod", p, 0, FALSE)
    /\ UNCHANGED <<query, loadingState, result, error, history, savedComparisons, view,
                   urlQ, urlOk, mounted, inflight, now>>

----------------------------------------------------------------------------

\* a step of the App component seen without the ComparisonResults component and with
\* the service's answer abstracted to its outcome
AppOnly == UNCHANGED <<envVars, personaVars, prefetched, feedbackVars, sideVars>>

\* the search state machine with deep link, input field, bookmark loading and the ledger
Next ==
    \/ Mount /\ AppOnly
    \/ SubmitForm /\ AppOnly
    \/ (\E ex \in examples : ClickExample(ex)) /\ AppOnly
    \/ (\E i \in 1..MaxPick : ClickHistoryItem(i)) /\ AppOnly
    \/ (\E i \in 1..MaxPick : handleSuggestionClick(i)) /\ AppOnly
    \/ (\E val \in TypedInputs : handleInputChange(val)) /\ AppOnly
    \/ (\E i \in 1..MaxInFlight, outcome \in Outcomes : CompareResolved(i, outcome)) /\ AppOnly
    \/ (\E i \in 1..MaxInFlight, cause \in Causes : CompareRejected(i, cause)) /\ AppOnly
    \/ (\E i \in 1..MaxSaved : loadSaved(i)) /\ AppOnly
    \/ clearHistory /\ AppOnly
    \/ (\E i \in 1..MaxPick : deleteHistoryItem(i)) /\ AppOnly
    \/ LogoClick /\ AppOnly
    \/ ToggleView /\ AppOnly
    \/ Tick /\ AppOnly

Spec == Init /\ [][Next]_vars

\* searches and resets over any stored ledger, up to the cap of the ledger
NextLedger ==
    \/ Mount /\ AppOnly
    \/ SubmitForm /\ AppOnly
    \/ (\E ex \in examples : ClickExample(ex)) /\ AppOnly
    \/ (\E i \in 1..MaxPick : handleSuggestionClick(i)) /\ AppOnly
    \/ (\E val \in TypedInputs : handleInputChange(val)) /\ AppOnly
    \/ (\E i \in 1..MaxInFlight, outcome \in Outcomes : CompareResolved(i, outcome)) /\ AppOnly
    \/ (\E i \in 1..MaxInFlight, cause \in Causes : CompareRejected(i, cause)) /\ AppOnly
    \/ clearHistory /\ AppOnly
    \/ LogoClick /\ AppOnly
    \/ Tick /\ AppOnly

SpecLedger == InitLedger /\ [][NextLedger]_vars

\* start-up of a session in which the generative model gives the answer `response`
InitExtract ==
    \E answer \in Responses :
        /\ Start(<<>>, <<>>, NoParam, TRUE)
        /\ response = answer /\ storageOk = TRUE
        /\ Unmounted /\ preferredPersonaId = NoPersona
        /\ Fresh

\* searches answered by the generative model with the text and citations of the session
NextExtract ==
    \/ Mount /\ AppOnly
    \/ (\E ex \in examples : ClickExample(ex)) /\ AppOnly
    \/ (\E i \in 1..MaxInFlight : CompareResponded(i)) /\ AppOnly
    \/ (\E i \in 1..MaxInFlight, cause \in Causes : CompareRejected(i, cause)) /\ AppOnly
    \/ LogoClick /\ AppOnly
    \/ Tick /\ AppOnly

SpecExtract == InitExtract /\ [][NextExtract]_vars

\* the preferredPersonaId item an earlier session may have left
StoredPersonas == {NoPersona, "p3", "p7"}

\* start-up for the persona selection: any stored preference, with or without a deep
\* link and a bookmark
InitPersona ==
    \E storedPersona \in StoredPersonas, storedSaved \in StoredSaved, param \in {NoParam, QC} :
        /\ Start(<<>>, storedSaved, param, TRUE)
        /\ response = NoResponse /\ storageOk = TRUE
        /\ Unmounted /\ preferredPersonaId = storedPersona
        /\ Fresh

\* App together with the ComparisonResults component it renders, at one clock reading
\* (the persona state does not read the time)
NextPersona ==
    \/ Mount /\ Render(FALSE)
    \/ (\E ex \in examples : ClickExample(ex)) /\ Render(FALSE)
    \/ (\E i \in 1..MaxInFlight, outcome \in Outcomes : CompareResolved(i, outcome)) /\ Render(TRUE)
    \/ (\E i \in 1..MaxInFlight, cause \in Causes : CompareRejected(i, cause)) /\ Render(FALSE)
    \/ (\E i \in 1..MaxSaved : loadSaved(i)) /\ Render(TRUE)
    \/ LogoClick /\ Render(FALSE)
    \/ ToggleView /\ Render(FALSE)
    \/ \E k \in 1..2 : handlePersonaSelect(k)
    \/ \E i \in 1..MaxPersonaCalls, reply \in PersonaReplies : PersonaResolved(i, reply)
    \/ \E i \in 1..MaxPersonaCalls, reply \in PersonaReplies : PersonaRejected(i, reply)

SpecPersona == InitPersona /\ [][NextPersona]_vars

\* start-up for the row feedback: with or without a bookmark, and with or without a
\* mapping stored for the bookmarked result by an earlier session
InitFeedback ==
    \E storedSaved \in StoredSaved,
       mappings \in {<<>>, 0 :> [idx \in Rows |-> IF idx = 1 THEN "up" ELSE "none"]} :
        /\ Start(<<>>, storedSaved, NoParam, TRUE)
        /\ response = NoResponse /\ storageOk = TRUE
        /\ Unmounted /\ preferredPersonaId = NoPersona
        /\ Quiet
        /\ Loaded
        /\ feedbackStore = StoredFeedback(mappings)

\* App together with the rows of the ComparisonResults component it renders
NextFeedback ==
    \/ Mount /\ RenderRows(FALSE)
    \/ (\E ex \in examples : ClickExample(ex)) /\ RenderRows(FALSE)
    \/ (\E i \in 1..MaxInFlight, outcome \in Outcomes : CompareResolved(i, outcome)) /\ RenderRows(TRUE)
    \/ (\E i \in 1..MaxSaved : loadSaved(i)) /\ RenderRows(TRUE)
    \/ LogoClick /\ RenderRows(FALSE)
    \/ ToggleView /\ RenderRows(FALSE)
    \/ Tick /\ RenderRows(FALSE)
    \/ \E idx \in Rows, type \in Marks : handleRowFeedback(idx, type)

SpecFeedback == InitFeedback /\ [][NextFeedback]_vars

\* start-up in a browser context whose localStorage throws on every access: safeGetItem
\* gives null for both lists, which then start empty
InitNoStorage ==
    \E param \in {NoParam, QA} :
        /\ Start(<<>>, <<>>, param, TRUE)
        /\ response = NoResponse /\ storageOk = FALSE
        /\ Unmounted /\ preferredPersonaId = NoPersona
        /\ Fresh

\* a step of App seen with the whole ComparisonResults component it renders
RenderAll(newResult) ==
    /\ UNCHANGED <<envVars, sideVars>>
    /\ RenderPersona(newResult)
    /\ RenderFeedback(newResult)

\* the session without usable storage, at one clock reading
NextNoStorage ==
    \/ Mount /\ RenderAll(FALSE)
    \/ (\E ex \in examples : ClickExample(ex)) /\ RenderAll(FALSE)
    \/ (\E i \in 1..MaxInFlight, outcome \in Outcomes : CompareResolved(i, outcome)) /\ RenderAll(TRUE)
    \/ (\E i \in 1..MaxInFlight, cause \in Causes : CompareRejected(i, cause)) /\ RenderAll(FALSE)
    \/ toggleSave(1) /\ RenderAll(FALSE)
    \/ (\E i \in 1..MaxSaved : loadSaved(i)) /\ RenderAll(TRUE)
    \/ LogoClick /\ RenderAll(FALSE)
    \/ ToggleView /\ RenderAll(FALSE)
    \/ \E k \in 1..2 : handlePersonaSelect(k)
    \/ \E i \in 1..MaxPersonaCalls, reply \in PersonaReplies : PersonaResolved(i, reply)
    \/ \E i \in 1..MaxPersonaCalls, reply \in PersonaReplies : PersonaRejected(i, reply)
    \/ \E idx \in Rows, type \in Marks : handleRowFeedback(idx, type)

SpecNoStorage == InitNoStorage /\ [][NextNoStorage]_vars

\* the lists a well-formed searchHistory item may hold
StoredHistoryLists == {<<>>, <<Str(QB), Str(QA)>>, <<Obj(QB, 0), Obj(QA, 0)>>}

\* before the App function runs: any content of the two items; the state variables are
\* written with the values of an empty session until Startup sets them
InitStore ==
    \E storedHistory \in StoredItems(StoredHistoryLists),
       storedSaved \in StoredItems(StoredSaved) :
        /\ Start(<<>>, <<>>, NoParam, TRUE)
        /\ response = NoResponse /\ storageOk = TRUE
        /\ Unmounted /\ preferredPersonaId = NoPersona
        /\ Quiet
        /\ feedbackStore = StoredFeedback(<<>>)
        /\ boot = "pending"
        /\ lsHistory = storedHistory
        /\ lsSaved = storedSaved

\* a step of the running App seen with the two stored lists
Kept ==
    /\ boot = "running"
    /\ Persist
    /\ UNCHANGED <<boot, envVars, personaVars, prefetched, feedbackVars, statsVars>>

\* page loads and the handlers that change the two lists
NextStore ==
    \/ Startup /\ UNCHANGED <<envVars, personaVars, prefetched, feedbackVars, statsVars>>
    \/ Reload /\ UNCHANGED <<envVars, personaVars, prefetched, feedbackVars, statsVars>>
    \/ Mount /\ Kept
    \/ (\E ex \in examples : ClickExample(ex)) /\ Kept
    \/ (\E i \in 1..MaxInFlight, outcome \in Outcomes : CompareResolved(i, outcome)) /\ Kept
    \/ toggleSave(1) /\ Kept
    \/ clearHistory /\ Kept
    \/ Tick /\ Kept

SpecStore == InitStore /\ [][NextStore]_vars

\* a step of the running App seen with everything it leaves in the storage: the two
\* lists, and what the ComparisonResults component it renders reads and writes
KeptAll(newResult) ==
    /\ boot = "running"
    /\ Persist
    /\ RenderPersona(newResult)
    /\ RenderFeedback(newResult)
    /\ UNCHANGED <<boot, envVars, statsVars>>

\* the searches, the history and the bookmarks, with the storage and the rendered result
NextKeys ==
    \/ Startup /\ UNCHANGED <<envVars, personaVars, prefetched, feedbackVars, statsVars>>
    \/ Mount /\ KeptAll(FALSE)
    \/ (\E ex \in examples : ClickExample(ex)) /\ KeptAll(FALSE)
    \/ (\E i \in 1..MaxInFlight, outcome \in Outcomes : CompareResolved(i, outcome)) /\ KeptAll(TRUE)
    \/ (\E i \in 1..MaxInFlight, cause \in Causes : CompareRejected(i, cause)) /\ KeptAll(FALSE)
    \/ toggleSave(1) /\ KeptAll(FALSE)
    \/ (\E i \in 1..MaxSaved : loadSaved(i)) /\ KeptAll(TRUE)
    \/ (\E i \in 1..MaxSaved : deleteSaved(i)) /\ KeptAll(FALSE)
    \/ clearHistory /\ KeptAll(FALSE)
    \/ (\E i \in 1..MaxPick : deleteHistoryItem(i)) /\ KeptAll(FALSE)
    \/ ToggleView /\ KeptAll(FALSE)
    \/ \E i \in 1..MaxPersonaCalls, reply \in PersonaReplies : PersonaResolved(i, reply)
    \/ \E i \in 1..MaxPersonaCalls, reply \in PersonaReplies : PersonaRejected(i, reply)

SpecKeys == InitStore /\ [][NextKeys]_vars

\* start-up for the progress of the searches: with or without a deep link and a bookmark
InitLive ==
    \E storedSaved \in StoredSaved, param \in {NoParam, QA} :
        /\ Start(<<>>, storedSaved, param, TRUE)
        /\ response = NoResponse /\ storageOk = TRUE
        /\ Unmounted /\ preferredPersonaId = NoPersona
        /\ Fresh

\* a pending compareProducts promise settles
Settle ==
    /\ \/ \E i \in 1..MaxInFlight, outcome \in Outcomes : CompareResolved(i, outcome)
       \/ \E i \in 1..MaxInFlight, cause \in Causes : CompareRejected(i, cause)
    /\ AppOnly

\* what the user does around a search, at one clock reading
NextLive ==
    \/ Mount /\ AppOnly
    \/ SubmitForm /\ AppOnly
    \/ (\E ex \in examples : ClickExample(ex)) /\ AppOnly
    \/ (\E val \in TypedInputs : handleInputChange(val)) /\ AppOnly
    \/ (\E i \in 1..MaxSaved : loadSaved(i)) /\ AppOnly
    \/ LogoClick /\ AppOnly
    \/ ToggleView /\ AppOnly
    \/ Settle

\* the App in an environment where every comparison request is answered: the promise
\* of a dispatched request resolves or rejects, and its continuation then runs
SpecLive == InitLive /\ [][NextLive]_vars /\ WF_vars(Settle)

\* the ages, in hours, around the two ends of the period before a period of length w
Ages(w) == <<0, w - 1, w, 2 * w - 1, 2 * w>>

\* how many entries of the first j ages there are
RECURSIVE AgedUpTo(_, _)
AgedUpTo(n, j) == IF j = 0 THEN 0 ELSE AgedUpTo(n, j - 1) + n[j]

\* a stored ledger with n[j] entries of the j-th age at time 1, newest first
AgedLedger(w, n) ==
    [k \in 1..AgedUpTo(n, 5) |->
        LET j == CHOOSE b \in 1..5 : AgedUpTo(n, b - 1) < k /\ k <= AgedUpTo(n, b)
        IN Obj(StoredNames[k], 1 - Ages(w)[j])]

\* start-up for the statistics: a ledger with up to MaxPerAge entries of each age
InitStats ==
    \E period \in Periods, n \in [1..5 -> 0..MaxPerAge], storedSaved \in StoredSaved :
        /\ Start(AgedLedger(Duration(period), n), storedSaved, NoParam, TRUE)
        /\ response = NoResponse /\ storageOk = TRUE
        /\ Unmounted /\ preferredPersonaId = NoPersona
        /\ Fresh

\* a step of App that leaves the period, seen with the statistics; the effect runs when
\* the step is the first render or changed one of the lists
Counted ==
    /\ UNCHANGED statsPeriod
    /\ IF mounted' # mounted \/ history' # history \/ savedComparisons' # savedComparisons
       THEN Recount
       ELSE UNCHANGED realStats
    /\ UNCHANGED <<envVars, personaVars, prefetched, feedbackVars, storeVars>>

\* the idle home view with its statistics panel
NextStats ==
    \/ Mount /\ Counted
    \/ (\E p \in Periods : setStatsPeriod(p)) /\ Recount
            /\ UNCHANGED <<envVars, personaVars, prefetched, feedbackVars, storeVars>>
    \/ (\E ex \in examples : ClickExample(ex)) /\ Counted
    \/ (\E i \in 1..MaxInFlight, outcome \in Outcomes : CompareResolved(i, outcome)) /\ Counted
    \/ clearHistory /\ Counted
    \/ Tick /\ Counted

SpecStats == InitStats /\ [][NextStats]_vars

\* the handlers that read or write the saved comparisons
NextSaved ==
    \/ Mount /\ AppOnly
    \/ (\E ex \in examples : ClickExample(ex)) /\ AppOnly
    \/ (\E i \in 1..MaxInFlight, outcome \in Outcomes : CompareResolved(i, outcome)) /\ AppOnly
    \/ (\E calls \in 1..2 : toggleSave(calls)) /\ AppOnly
    \/ (\E i \in 1..MaxSaved : loadSaved(i)) /\ AppOnly
    \/ (\E i \in 1..MaxSaved : deleteSaved(i)) /\ AppOnly
    \/ LogoClick /\ AppOnly
    \/ ToggleView /\ AppOnly
    \/ Tick /\ AppOnly

SpecSaved == InitSaved /\ [][NextSaved]_vars

----------------------------------------------------------------------------
(* Vocabulary of the properties *)

\* the step is one run of the handler op (Tick is the only step that moves the clock,
\* every other step writes the history variable)
Did(op) == now' = now /\ last'.op = op

\* a text that is empty after trimming
IsBlankText(s) == s = "" \/ s = " "

\* the step dispatched a comparison request for last'.q
Dispatched == Did("handleSearch") /\ ~IsBlankText(last'.q)

\* the entries of a ledger whose query differs from q, in their order
OtherQueries(ledger, q) ==
    LET differs(item) == item.query # q
    IN SelectSeq(ledger, differs)

\* the saved entries whose (query, timestamp) differs from that of r, in their order
OtherIdentities(list, r) ==
    LET differs(item) == ~(item.query = r.query /\ item.timestamp = r.timestamp)
    IN SelectSeq(list, differs)

\* the number of saved entries whose (query, timestamp) is that of r
CountSame(list, r) ==
    Cardinality({i \in 1..Len(list) :
                    list[i].query = r.query /\ list[i].timestamp = r.timestamp})

Entries(ledger) == {ledger[i] : i \in 1..Len(ledger)}

----------------------------------------------------------------------------
(* C1: a successful search of q replaces the ledger L by the new entry      *)
(* {q, completion time} at the front, followed by the entries of L whose   *)
(* query differs from q in their order, cut to the first 20; q then occurs *)
(* once, at the front, with a timestamp no earlier than the one it had.    *)
C1_RecordOnSuccess ==
    [][Did("resolved") =>
         LET q == last'.q
             rest == OtherQueries(history, q)
         IN /\ Len(history') = Min(MAX_HISTORY, 1 + Len(rest))
            /\ history'[1] = [query |-> q, timestamp |-> now]
            /\ \A k \in 2..Len(history') : history'[k] = rest[k - 1]
            /\ \A k \in 2..Len(history') : history'[k].query # q
            /\ \A k \in 1..Len(history) :
                  history[k].query = q => history[k].timestamp <= history'[1].timestamp
      ]_vars

\* a stored list of 21 entries ending in QA, after QA was searched again: the old QA
\* entry is gone, the new one is in front, and the cut dropped the last other entry
C1_Witness ==
    /\ last.op = "resolved" /\ last.q = QA
    /\ Len(history) = MAX_HISTORY
    /\ history[1].query = QA /\ history[1].timestamp >= 1
    /\ history[2].query = "h1"
    /\ history[MAX_HISTORY].query = "h19"

(* C2: in every reachable state, whatever list was stored under            *)
(* searchHistory, no two entries of the ledger have the same query.        *)
C2_UniqueQueries ==
    \A i, j \in 1..Len(history) : i # j => history[i].query # history[j].query

(* C3: in every reachable state, the state right after loading included,   *)
(* the ledger holds at most 20 entries.                                    *)
C3_AtMostTwenty == Len(history) <= MAX_HISTORY

(* C4: the ledger gains an entry exactly when a comparison request         *)
(* resolves: a rejection and a dispatch leave it unchanged, and every      *)
(* resolution, structured or raw text, puts its query at the front.        *)
C4_LedgerGainsOnResolveOnly ==
    [][/\ Did("rejected") => history' = history
       /\ Dispatched => history' = history
       /\ Did("resolved") =>
             /\ Len(history') >= 1
             /\ history'[1] = [query |-> last'.q, timestamp |-> now]
       /\ (Entries(history') \ Entries(history) # {}) =>
             /\ Did("resolved")
             /\ Entries(history') \ Entries(history) = {[query |-> last'.q, timestamp |-> now]}
      ]_vars

\* a raw-text resolution was recorded while another request is still in flight
C4_Witness ==
    /\ last.op = "resolved"
    /\ result # Null /\ result.data = Null
    /\ Len(history) >= 1 /\ history[1].query = result.query
    /\ Len(inflight) = 1

(* C5: calling toggle twice in a row restores the membership of the        *)
(* current result in the saved list, and each call leaves the entries of   *)
(* other identities unchanged.                                             *)
C5_ToggleTwiceRestores ==
    [][Did("toggleSave") /\ result # Null /\ result.data # Null =>
         /\ OtherIdentities(savedComparisons', result)
               = OtherIdentities(savedComparisons, result)
         /\ last.op = "toggleSave" /\ last.q = result.query =>
               IsSaved(savedComparisons', result) = last.was
      ]_vars

(* C6: after toggle calls for one result, two calls made by the same       *)
(* render included, the saved list holds at most one entry with the        *)
(* result's (query, timestamp), and no entry of another identity was       *)
(* removed.                                                                *)
C6_ToggleKeepsOnePerIdentity ==
    [][(Did("toggleSave") \/ Did("toggleSaveTwice")) /\ result # Null /\ result.data # Null =>
         /\ CountSame(savedComparisons, result) <= 1 =>
               CountSame(savedComparisons', result) <= 1
         /\ OtherIdentities(savedComparisons', result)
               = OtherIdentities(savedComparisons, result)
      ]_vars

(* C7: a search whose effective query is empty or whitespace-only changes  *)
(* neither the loading state, the result, the error, the URL parameter nor *)
(* the ledger, and issues no request.                                      *)
C7_BlankSearchIsNoOp ==
    [][Did("handleSearch") /\ IsBlankText(last'.q) =>
         UNCHANGED <<loadingState, result, error, urlQ, history, inflight>>
      ]_vars

\* a blank search was made while a result was shown
C7_Witness ==
    /\ last.op = "handleSearch" /\ IsBlankText(last.q)
    /\ loadingState = SUCCESS /\ result # Null

(* C8, as stated: right after a non-blank search is dispatched, state =    *)
(* LOADING, result = null, error = null and URL parameter q = the query.   *)
C8_AfterDispatch ==
    (last.op = "handleSearch" /\ ~IsBlankText(last.q)) =>
        /\ loadingState = LOADING
        /\ result = Null
        /\ error = NoError
        /\ urlQ = last.q

(* C8, amended: right after a non-blank search is dispatched, state =      *)
(* LOADING, result = null, error = null, and URL parameter q = the query   *)
(* where the browser accepts the URL update; where pushState throws, the   *)
(* parameter keeps the value it had.                                       *)
C8_AfterDispatchAmended ==
    [][Dispatched =>
         /\ loadingState' = LOADING
         /\ result' = Null
         /\ error' = NoError
         /\ inflight' = Append(inflight, last'.q)
         /\ urlQ' = IF urlOk THEN last'.q ELSE urlQ
      ]_vars

\* QB was dispatched after a search of QA had succeeded, and the URL now names QB
C8_Witness ==
    /\ last.op = "handleSearch" /\ last.q = QB
    /\ loadingState = LOADING /\ urlQ = QB
    /\ Len(history) >= 1 /\ history[1].query = QA /\ history[1].timestamp = 2

(* C9: when the comparison request of a search rejects, for any cause, the *)
(* state becomes ERROR and the error message is the one generic string.    *)
C9_RejectGivesGenericError ==
    last.op = "rejected" => loadingState = ERROR /\ error = GenericError

\* a rejection arrived while a loaded bookmark was shown
C9_Witness ==
    /\ last.op = "rejected"
    /\ loadingState = ERROR /\ error = GenericError
    /\ result # Null /\ inflight = <<>>

(* C10: loadBookmark(saved) sets state = SUCCESS and current result =      *)
(* saved, from any state, and issues no comparison request.                *)
C10_LoadBookmark ==
    [][Did("loadSaved") =>
         /\ last'.i \in 1..Len(savedComparisons)
         /\ result' = savedComparisons[last'.i]
         /\ result'.query = last'.q
         /\ loadingState' = SUCCESS
         /\ inflight' = inflight
      ]_vars

\* a bookmark was loaded while a search was loading; its request is still in flight
C10_Witness ==
    /\ last.op = "loadSaved"
    /\ loadingState = SUCCESS /\ result # Null /\ result.id >= 0
    /\ Len(inflight) = 1

(* C11: every step that brings the loading state to SUCCESS is a           *)
(* loadBookmark call or the resolution of a comparison request that a      *)
(* search dispatched earlier and that was still in flight; no other        *)
(* operation sets SUCCESS.                                                 *)
C11_SuccessOnlyByLoadOrResolve ==
    [][(loadingState' = SUCCESS /\ loadingState # SUCCESS) =>
         \/ Did("loadSaved")
         \/ /\ Did("resolved")
            /\ last'.i \in 1..Len(inflight)
            /\ inflight[last'.i] = last'.q
            /\ ~IsBlankText(last'.q)
            /\ inflight' = RemoveAt(inflight, last'.i)
      ]_vars

\* SUCCESS was entered from ERROR by loading a bookmark
C11_Witness ==
    /\ last.op = "loadSaved"
    /\ loadingState = SUCCESS
    /\ error = GenericError

(* C12: the reset to IDLE aside, the loading state only changes along     *)
(* IDLE->LOADING, LOADING->SUCCESS, LOADING->ERROR, SUCCESS->LOADING,      *)
(* ERROR->LOADING and the loadBookmark transition into SUCCESS; a request   *)
(* resolution never moves the state from IDLE, SUCCESS or ERROR to SUCCESS *)
(* or ERROR.                                                               *)
C12_StateMachineTransitions ==
    [][/\ loadingState' # loadingState =>
            \/ Did("loadSaved") /\ loadingState' = SUCCESS
            \/ Did("logo") /\ loadingState' = IDLE
            \/ <<loadingState, loadingState'>> \in
                  { <<IDLE, LOADING>>, <<LOADING, SUCCESS>>, <<LOADING, ERROR>>,
                    <<SUCCESS, LOADING>>, <<ERROR, LOADING>> }
       /\ (Did("resolved") \/ Did("rejected")) => loadingState = LOADING
      ]_vars

(* C13: when the later-dispatched of two searches in flight resolves       *)
(* first, the resolution of the earlier-dispatched one that follows leaves *)
(* the current result and the loading state as the later search set them.  *)
C13_LastDispatchWins ==
    [][(/\ Did("resolved")
        /\ last.op = "resolved" /\ last.i = 2
        /\ Len(inflight) = 1) =>
         /\ result' = result
         /\ loadingState' = loadingState
      ]_vars

(* C14: at start, a present URL parameter q = v makes the mount step the   *)
(* step of search(v) from the initial IDLE state (LOADING and a request    *)
(* for v when v is not blank, nothing when it is), followed by SUCCESS     *)
(* with v at the front of the history or by ERROR; with q absent the state *)
(* stays IDLE and no request is issued; the parameter is read once.        *)
C14_DeepLinkIsSearch ==
    [][/\ (~mounted /\ mounted') =>
            /\ loadingState = IDLE /\ inflight = <<>> /\ result = Null
            /\ IF urlQ # NoParam /\ ~IsBlankText(urlQ)
               THEN /\ loadingState' = LOADING
                    /\ inflight' = <<urlQ>>
                    /\ query' = urlQ
                    /\ result' = Null /\ error' = NoError
                    /\ urlQ' = urlQ
                    /\ UNCHANGED <<history, savedComparisons>>
               ELSE UNCHANGED <<loadingState, inflight, result, error, urlQ,
                                history, savedComparisons>>
       /\ mounted => mounted'
       /\ (mounted /\ Did("resolved")) =>
            /\ loadingState' = SUCCESS
            /\ result'.query = last'.q
            /\ history'[1].query = last'.q
       /\ (mounted /\ Did("rejected")) => loadingState' = ERROR
      ]_vars

\* the page was opened on ?q=QA in a context where the URL cannot be rewritten, and the
\* request of the deep link has resolved: QA is shown and leads the history
C14_Witness ==
    /\ mounted /\ ~urlOk /\ urlQ = QA
    /\ last.op = "resolved" /\ last.q = QA
    /\ loadingState = SUCCESS
    /\ history[1].query = QA
    /\ query = QA

\* the texts of the well-formed records
RecordTexts == {<<"{", "}">>, <<"{", "m", "}">>}

\* the text has a "{" with a "}" somewhere after it
HasBraceSpan(text) ==
    \E i, j \in 1..Len(text) : i < j /\ text[i] = "{" /\ text[j] = "}"

\* the text from its first "{" to its last "}", for a text that has a brace span
OuterSpan(text) ==
    LET i == CHOOSE a \in 1..Len(text) :
                 text[a] = "{" /\ \A k \in 1..Len(text) : text[k] = "{" => a <= k
        j == CHOOSE b \in 1..Len(text) :
                 text[b] = "}" /\ \A k \in 1..Len(text) : text[k] = "}" => k <= b
    IN SubSeq(text, i, j)

(* C15: for every well-formed record J, every prose prefix P and suffix S  *)
(* over the alphabet (braces included), extracting from P+J+S returns the  *)
(* record J and no rawText.                                                *)
C15_RoundTripInProse ==
    (last.op = "resolved" /\ result # Null) =>
        \A a, b \in 1..Len(response.text) :
            SubSeq(response.text, a, b) \in RecordTexts =>
                /\ result.data # Null
                /\ JSONStringify(result.data) = SubSeq(response.text, a, b)
                /\ result.rawText = NoText

(* C16: for every text with no "{" followed later by a "}", the empty text *)
(* included, the comparison resolves with record = null and rawText equal  *)
(* to the whole text.                                                      *)
C16_NoSpanGivesRawText ==
    (last.op = "resolved" /\ ~HasBraceSpan(response.text)) =>
        /\ loadingState = SUCCESS
        /\ result # Null
        /\ result.data = Null
        /\ result.rawText = [text |-> response.text]

\* an answer whose braces are in the wrong order was returned as raw text
C16_Witness ==
    /\ last.op = "resolved"
    /\ response.text = <<"}", "p", "{">>
    /\ result # Null /\ result.data = Null
    /\ result.rawText = [text |-> <<"}", "p", "{">>]

(* C17: when the text has a brace span that is not valid JSON, the         *)
(* comparison resolves with record = null and rawText equal to the whole   *)
(* original text, the search ends in SUCCESS, not ERROR, and the query is  *)
(* recorded in the history.                                                *)
C17_MalformedSpanFallsBack ==
    [][(/\ Did("resolved")
        /\ HasBraceSpan(response.text)
        /\ OuterSpan(response.text) \notin RecordTexts) =>
         /\ result'.data = Null
         /\ result'.rawText = [text |-> response.text]
         /\ loadingState' = SUCCESS
         /\ error' = error
         /\ history'[1] = [query |-> last'.q, timestamp |-> now]
      ]_vars

\* prose, then a malformed object: shown as raw text in SUCCESS, query recorded
C17_Witness ==
    /\ last.op = "resolved"
    /\ response.text = <<"p", "{", "p", "}">>
    /\ loadingState = SUCCESS /\ error = NoError
    /\ result # Null /\ result.data = Null
    /\ result.rawText = [text |-> response.text]
    /\ Len(history) = 1 /\ history[1].query = result.query

\* a URI that can be followed
UsableUri(uri) == uri # Undefined /\ uri # ""

(* C18: the sources of a result are, in order, one {title, uri} per chunk  *)
(* that has a web reference with a usable URI; the other chunks contribute *)
(* nothing and a missing title becomes the generic label; hence every      *)
(* source has a usable uri.                                                *)
C18_SourcesFromUsableChunks ==
    (last.op = "resolved" /\ result # Null) =>
        LET usable(chunk) == chunk.web /\ UsableUri(chunk.uri)
            cited == SelectSeq(response.chunks, usable)
        IN /\ Len(result.sources) = Len(cited)
           /\ \A k \in 1..Len(result.sources) :
                 /\ UsableUri(result.sources[k].uri)
                 /\ result.sources[k].uri = cited[k].uri
                 /\ result.sources[k].title =
                       IF cited[k].title \in {Undefined, ""} THEN "Fonte Web"
                       ELSE cited[k].title

\* the step shows a structured result: a request resolved or a bookmark was loaded, and
\* ComparisonResults is rendered with it
ShowsRecord ==
    /\ Did("resolved") \/ Did("loadSaved")
    /\ view' = "home" /\ loadingState' = SUCCESS
    /\ result' # Null /\ result'.data # Null

\* the ids of the personas of a record
IdsOfRecord(data) == {data.personas[k].id : k \in 1..Len(data.personas)}

(* C19: when a record is shown, the pre-selected persona is the stored     *)
(* preferredPersonaId if that id is among the record's personas, otherwise *)
(* the record's suggestedPersona; the selected persona id is then none or  *)
(* the id of one of the record's personas.                                 *)
C19_PreSelection ==
    [][ShowsRecord =>
         LET ids == IdsOfRecord(result'.data)
         IN /\ selectedPersona' =
                  IF preferredPersonaId \in ids THEN preferredPersonaId
                  ELSE IF result'.data.suggestedPersona \in ids
                       THEN result'.data.suggestedPersona
                       ELSE NoPersona
            /\ selectedPersona' \in ids \cup {NoPersona}
      ]_vars

(* C20: with no stored preference, showing a record selects its            *)
(* suggestedPersona and writes that id to preferredPersonaId; showing a    *)
(* record whose personas contain the stored id selects the stored id, even *)
(* if the record suggests another persona, and leaves the stored           *)
(* preference unchanged.                                                   *)
C20_SuggestionThenStoredPreference ==
    [][ShowsRecord =>
         LET ids == IdsOfRecord(result'.data)
             suggested == result'.data.suggestedPersona
         IN /\ (preferredPersonaId = NoPersona /\ suggested \in ids) =>
                  /\ selectedPersona' = suggested
                  /\ preferredPersonaId' = suggested
            /\ preferredPersonaId \in ids =>
                  /\ selectedPersona' = preferredPersonaId
                  /\ preferredPersonaId' = preferredPersonaId
      ]_vars

\* the preference p1, written when the record of QA was shown, is selected for the
\* bookmarked record of QB, which suggests p3
C20_Witness ==
    /\ last.op = "loadSaved"
    /\ Shown /\ result.query = QB
    /\ result.data.suggestedPersona = "p3"
    /\ selectedPersona = "p1" /\ preferredPersonaId = "p1"

----------------------------------------------------------------------------
(* Persona requests *)

\* the step issued a persona request that no click asked for
Prefetch == ~Did("handlePersonaSelect") /\ Len(personaInflight') > Len(personaInflight)

\* the request the step issued
Issued == personaInflight'[Len(personaInflight')]

(* C21, as stated: the prefetch is dispatched only when a persona was       *)
(* pre-selected and no analysis result is held, and at most once per       *)
(* record: a record that is shown again (a resolution always makes a new   *)
(* record, the other steps do not) is not the one last prefetched for.     *)
C21_PrefetchOncePerRecord ==
    [][Prefetch =>
         /\ selectedPersona' # NoPersona /\ Issued.id = selectedPersona'
         /\ Shown => personaResult = Null
         /\ ~Did("resolved") => RecordKey(result') # prefetched
      ]_vars

(* C21, amended: the prefetch is dispatched only when the results view is  *)
(* mounted or is handed a new record, a persona was pre-selected and the   *)
(* view holds no analysis result; a view that stays mounted on its record  *)
(* never dispatches it again, and a view that holds a result never         *)
(* dispatches it, whatever else happens.                                   *)
C21_PrefetchOncePerMount ==
    [][/\ Prefetch =>
            /\ selectedPersona' # NoPersona /\ Issued.id = selectedPersona'
            /\ Issued.data = result'.data
            /\ Shown => personaResult = Null
            /\ ~Shown \/ Did("resolved") \/ Did("loadSaved")
       /\ (Shown /\ personaResult # Null) => ~Prefetch
      ]_vars

\* the analysis requested by the prefetch for the shown record has arrived and is held
C21_Witness ==
    /\ Shown /\ RecordKey(result) = prefetched
    /\ last.op = "personaResolved"
    /\ personaResult # Null /\ personaResult.data = result.data
    /\ personaInflight = <<>>

(* C22: in every state where a persona result is held, it is the answer to *)
(* the request made for the persona that is selected now; the answer to a  *)
(* request for a persona that is no longer selected is discarded whenever  *)
(* it arrives.                                                             *)
C22_HeldResultIsForSelected ==
    personaResult # Null =>
        \E k \in 1..Len(personaResult.data.personas) :
            /\ personaResult.data.personas[k].id = selectedPersona
            /\ personaResult.data.personas[k].label = personaResult.persona

(* C23: when a persona request rejects, nothing else fails: afterwards the *)
(* view is not loading and holds no result, the selected persona stays     *)
(* set, and the search state and the error message are untouched.          *)
C23_RejectionLeavesNoResult ==
    [][Did("personaRejected") =>
         /\ ~loadingPersona'
         /\ personaResult' = Null
         /\ selectedPersona' = selectedPersona /\ selectedPersona' # NoPersona
         /\ loadingState' = loadingState /\ error' = error
      ]_vars

(* C24: immediately after a persona is selected, by a click or by the      *)
(* prefetch, the stored preferredPersonaId and the selected persona are    *)
(* the id of the selection, no analysis result is held, the view is        *)
(* loading, and exactly one request, for that persona's label and the      *)
(* shown record, was added to the pending ones.                            *)
C24_AfterSelect ==
    [][(Did("handlePersonaSelect") \/ Prefetch) =>
         LET before == IF Shown THEN personaInflight ELSE <<>>
         IN /\ personaInflight' = Append(before, Issued)
            /\ Issued.data = result'.data
            /\ Issued.id \in PersonaIds(result'.data)
            /\ Issued.label = FindPersona(Issued.id, result'.data).label
            /\ Did("handlePersonaSelect") => Issued.id = last'.q
            /\ preferredPersonaId' = Issued.id
            /\ selectedPersona' = Issued.id
            /\ personaResult' = Null
            /\ loadingPersona'
      ]_vars

\* the user picked the second persona while the analysis for the first was shown
C24_Witness ==
    /\ last.op = "handlePersonaSelect" /\ last.q = "p2"
    /\ Shown /\ result.query = QA
    /\ selectedPersona = "p2" /\ preferredPersonaId = "p2"
    /\ personaResult = Null /\ loadingPersona
    /\ Len(personaInflight) = 1

----------------------------------------------------------------------------
(* Row feedback *)

\* the mapping stored for a timestamp, empty when none is stored
OwnMapping(t) ==
    IF feedbackStore[t].present THEN feedbackStore[t].mapping ELSE NoFeedback

(* C29: row feedback is kept per result timestamp: a mark given while the  *)
(* result with timestamp t is displayed is added to the mapping stored for *)
(* t, which then holds the marks given for t and nothing else, and no      *)
(* other timestamp's mapping changes; when a result is shown, the rows     *)
(* carry exactly the mapping stored for its timestamp.                     *)
C29_FeedbackPerResult ==
    [][/\ Did("handleRowFeedback") =>
            feedbackStore' =
                [feedbackStore EXCEPT ![result.timestamp] =
                    [present |-> TRUE,
                     mapping |-> [OwnMapping(result.timestamp) EXCEPT ![last'.i] = last'.q]]]
       /\ ((Did("resolved") \/ Did("loadSaved")) /\ Shown') =>
            rowFeedback' = OwnMapping(result'.timestamp)
      ]_vars

----------------------------------------------------------------------------
(* Storage that throws *)

(* C25: with a localStorage whose every read and write throws, the session *)
(* runs as with an empty store that ignores writes: a record that is shown *)
(* gets its suggested persona pre-selected and its analysis prefetched,    *)
(* bookmarks and row marks are kept in memory, nothing is stored, and the  *)
(* ERROR state is entered only by a rejected request.                      *)
C25_ThrowingStoreIsEmptyStore ==
    [][~storageOk =>
         /\ (ShowsRecord /\ ~Shown
             /\ result'.data.suggestedPersona \in PersonaIds(result'.data)) =>
                /\ selectedPersona' = result'.data.suggestedPersona
                /\ loadingPersona'
                /\ Len(personaInflight') = 1
         /\ Did("handleRowFeedback") => rowFeedback'[last'.i] = last'.q
         /\ (Did("toggleSave") /\ result # Null /\ result.data # Null) =>
                IsSaved(savedComparisons', result) = ~last'.was
         /\ (loadingState' = ERROR /\ loadingState # ERROR) => Did("rejected")
         /\ UNCHANGED <<preferredPersonaId, feedbackStore>>
      ]_vars

----------------------------------------------------------------------------
(* Loading the stored lists *)

\* every item of a parsed list is a legacy string
AllStrings(items) == \A i \in 1..Len(items) : items[i].kind = "string"

\* every item of a parsed list is an entry object
AllObjects(items) == \A i \in 1..Len(items) : items[i].kind = "object"

(* C26: whatever is stored under searchHistory and savedComparisons        *)
(* (nothing, an empty string, invalid JSON, or JSON that is not a list:    *)
(* null, a number, an object), loading at start-up does not throw, yields  *)
(* a list for both, the empty one unless the content is a well-formed      *)
(* list, and the App runs.                                                 *)
C26_LoadingYieldsList ==
    [][Did("startup") =>
         LET loaded == historyInitializer(lsHistory, now)
             saved == savedInitializer(lsSaved)
         IN /\ ~loaded.threw
            /\ loaded.value.type = "list" /\ saved.type = "list"
            /\ lsHistory.kind # "list" => loaded.value.items = <<>>
            /\ lsSaved.kind # "list" => saved.items = <<>>
            /\ boot' = "running"
      ]_vars

(* C27: loading a stored list of strings makes of each string s the entry  *)
(* {query: s, timestamp: load time}, in the same order and number; loading *)
(* a list of entry objects gives the same entries; and what the first      *)
(* render persists is loaded, at any later time, as the same entries with  *)
(* the same timestamps.                                                    *)
C27_MigrationIsIdempotent ==
    [][(Did("startup") /\ boot' = "running" /\ lsHistory.kind = "list") =>
         LET raw == lsHistory.items
         IN /\ Len(history') = Len(raw)
            /\ (raw # <<>> /\ AllStrings(raw)) =>
                  \A i \in 1..Len(raw) :
                      history'[i] = [query |-> raw[i].query, timestamp |-> now]
            /\ AllObjects(raw) =>
                  \A i \in 1..Len(raw) :
                      history'[i] = [query |-> raw[i].query, timestamp |-> raw[i].timestamp]
            /\ \A t \in 0..(MaxTime + 1) :
                  historyInitializer(lsHistory', t) =
                      [threw |-> FALSE, value |-> Parsed("list", history')]
      ]_vars

\* the entries migrated from strings at time 1 have been persisted and are loaded again
\* at time 2 with the timestamps of the migration
C27_Witness ==
    /\ last.op = "startup" /\ boot = "running"
    /\ now = 2
    /\ history = <<[query |-> QB, timestamp |-> 1], [query |-> QA, timestamp |-> 1]>>

----------------------------------------------------------------------------
(* Statistics *)

\* the step ran the effect that computes the statistics
StatsRun ==
    /\ now' = now
    /\ \/ mounted' # mounted
       \/ statsPeriod' # statsPeriod
       \/ history' # history
       \/ savedComparisons' # savedComparisons

\* a trend value as it is shown
Shown_Trend(v) == (IF v >= 0 THEN "+" ELSE "") \o ToString(v) \o "%"

(* C28: for the history, the period w and the time at which the statistics *)
(* are computed: searches is the number of entries younger than w;         *)
(* previous is the number of entries of age w or more and less than 2w;    *)
(* the trend is the integer nearest to (current - previous) / previous *   *)
(* 100 when previous > 0, else 100 if current > 0, else 0, shown with '+'  *)
(* when it is not negative and never below -100; previous 0 and current 3  *)
(* give "+100%", previous 4 and current 2 give "-50%".                     *)
C28_WindowStats ==
    [][StatsRun =>
         LET w == CASE statsPeriod' = "24h" -> 24
                    [] statsPeriod' = "7d" -> 168
                    [] statsPeriod' = "30d" -> 720
             age(i) == now' - history'[i].timestamp
             current == Cardinality({i \in 1..Len(history') : age(i) < w})
             previous == Cardinality({i \in 1..Len(history') : w <= age(i) /\ age(i) < 2 * w})
         IN /\ realStats'.searches = current
            /\ \E v \in IF previous > 0
                        THEN LET below == (100 * (current - previous)) \div previous
                             IN {u \in {below, below + 1} : u >= -100}
                        ELSE {0, 100} :
                  /\ IF previous > 0
                     THEN 2 * previous * v - 200 * (current - previous)
                              \in (-previous)..previous
                     ELSE v = IF current > 0 THEN 100 ELSE 0
                  /\ realStats'.trend = Shown_Trend(v)
            /\ (previous = 0 /\ current = 3) => realStats'.trend = "+100%"
            /\ (previous = 4 /\ current = 2) => realStats'.trend = "-50%"
      ]_vars

\* four searches in the day before the last 24 hours, two in the last 24 hours
C28_Witness ==
    /\ mounted /\ statsPeriod = "24h"
    /\ Len(history) = 6
    /\ realStats.searches = 2
    /\ realStats.trend = "-50%"

----------------------------------------------------------------------------
(* The URL parameter *)

(* C30: the URL parameter q follows the searches: a dispatched search      *)
(* writes its query to q, after every successful search q is the query of  *)
(* the current result, and no step other than a dispatched search and the  *)
(* reset, which deletes it, changes q (where the browser accepts the URL   *)
(* update).                                                                *)
C30_UrlFollowsSearch ==
    [][urlOk =>
         /\ Dispatched => urlQ' = last'.q
         /\ Did("resolved") => urlQ' = result'.query
         /\ urlQ' # urlQ => (Dispatched \/ (Did("logo") /\ urlQ' = NoParam))
      ]_vars

----------------------------------------------------------------------------
(* Results and their parts *)

(* C31: every result produced by a comparison call carries rawText exactly *)
(* when its record is null: a structured result has no rawText, and an     *)
(* unstructured one carries the whole text of the answer, whatever the     *)
(* text is.                                                                *)
C31_RawTextIffNoRecord ==
    [][Did("resolved") =>
         /\ (result'.rawText # NoText) <=> (result'.data = Null)
         /\ result'.data = Null => result'.rawText = [text |-> response.text]
      ]_vars

\* a structured result, from an answer with text around the record
C31_Witness ==
    /\ last.op = "resolved"
    /\ response.text = <<"p", "{", "}", "p">>
    /\ result # Null /\ result.data # Null
    /\ result.rawText = NoText


(* C32: whenever a persona verdict is held for display together with a     *)
(* comparison record, the verdict was computed from that record: it is     *)
(* never held for a record other than the one it was requested with,       *)
(* including when a second comparison result replaces the first without    *)
(* the state passing through LOADING.                                      *)
C32_VerdictIsOfShownRecord ==
    (Shown /\ personaResult # Null) => personaResult.data = result.data


(* C33: in every reachable state the error message is non-null exactly     *)
(* when the loading state is ERROR: every operation that leaves ERROR (a   *)
(* new search, the logo reset, loading a bookmark) clears the message, and *)
(* no message is set while the state is not ERROR.                         *)
C33_ErrorIffErrorState ==
    (error # NoError) <=> (loadingState = ERROR)

(* C34: in every reachable state, overlapping requests included, SUCCESS   *)
(* implies that the result is non-null, and IDLE, LOADING and ERROR imply  *)
(* that the result is null.                                                *)
C34_ResultIffSuccess ==
    /\ loadingState = SUCCESS => result # Null
    /\ loadingState \in {IDLE, LOADING, ERROR} => result = Null


----------------------------------------------------------------------------
(* What the operations leave in the storage *)

(* C35, as stated: with working storage, after start-up and after every    *)
(* operation, the searchHistory item is the serialization of the whole     *)
(* history and the savedComparisons item is the serialization of the whole *)
(* saved list, and the search, history and bookmark operations write no    *)
(* other key than these two.                                               *)
C35_OnlyTheTwoLists ==
    [][(boot' = "running" /\ storageOk /\ last'.op \notin {"personaResolved", "personaRejected"}) =>
         /\ lsHistory' = StringifyHistory(history')
         /\ lsSaved' = StringifySaved(savedComparisons')
         /\ feedbackStore' = feedbackStore
         /\ preferredPersonaId' = preferredPersonaId
      ]_vars

(* C35, amended: the two items are the serializations of the two whole     *)
(* lists after start-up and after every operation, and the only other key  *)
(* a search, history or bookmark operation writes is preferredPersonaId,   *)
(* in a step that shows a result whose pre-selected persona has no         *)
(* analysis held: the pre-selection stores the id it selects.              *)
C35_TwoListsAndPreselection ==
    [][(boot' = "running" /\ storageOk /\ last'.op \notin {"personaResolved", "personaRejected"}) =>
         /\ lsHistory' = StringifyHistory(history')
         /\ lsSaved' = StringifySaved(savedComparisons')
         /\ feedbackStore' = feedbackStore
         /\ preferredPersonaId' # preferredPersonaId =>
               /\ Shown' /\ last'.op \in {"resolved", "loadSaved", "other"}
               /\ preferredPersonaId' = PersonaIdToSelect(preferredPersonaId, result'.data)
               /\ prefetched' = RecordKey(result')
      ]_vars

\* a search was recorded and its result bookmarked: both items hold the new lists
C35_Witness ==
    /\ boot = "running" /\ last.op = "toggleSave"
    /\ Len(history) > 0 /\ Len(savedComparisons) > 0
    /\ lsHistory = StringifyHistory(history)
    /\ lsSaved = StringifySaved(savedComparisons)


(* C36: loadBookmark(saved) changes only the current result, the input     *)
(* query, the loading state and the view: the history ledger, the saved    *)
(* list, the q parameter of the URL and the error message are left as they *)
(* were, and no entry is appended to the history.                          *)
C36_LoadBookmarkFrame ==
    [][Did("loadSaved") =>
         /\ history' = history
         /\ savedComparisons' = savedComparisons
         /\ urlQ' = urlQ
         /\ error' = error
         /\ query' = result'.query /\ view' = "home"
      ]_vars

\* a bookmark was loaded from the ERROR state of a search for another query: the message,
\* the URL and the history are those of the search
C36_Witness ==
    /\ last.op = "loadSaved"
    /\ error # NoError
    /\ urlQ # result.query
    /\ Len(history) > 0
    /\ \A k \in 1..Len(history) : history[k].query # result.query


(* C37: after loadBookmark(s), for any entry s of the saved list, the      *)
(* current result is saved, and a toggle that follows removes exactly s,   *)
(* the entry with that generated id, leaving every other saved entry in    *)
(* place and in order; remove(id) likewise deletes exactly the entries     *)
(* with that generated id.                                                 *)
C37_ToggleRemovesLoadedEntry ==
    [][/\ Did("loadSaved") => IsSaved(savedComparisons', result')
       /\ (last.op = "loadSaved" /\ Did("toggleSave")) =>
             LET others(item) == item.id # result.id
             IN savedComparisons' = SelectSeq(savedComparisons, others)
       /\ (Did("other") /\ view = "saved" /\ view' = "saved") =>
             \E i \in 1..Len(savedComparisons) :
                 LET others(item) == item.id # savedComparisons[i].id
                 IN savedComparisons' = SelectSeq(savedComparisons, others)
      ]_vars


(* C38: toggle does nothing when there is no current result or the current *)
(* result is unstructured (its record is null): the saved list is          *)
(* unchanged, so every entry that toggle adds has a non-null record.       *)
C38_ToggleNeedsRecord ==
    [][Did("toggleSave") =>
         /\ (result = Null \/ result.data = Null) => savedComparisons' = savedComparisons
         /\ \A k \in 1..Len(savedComparisons') :
               savedComparisons'[k] \notin Entries(savedComparisons)
                   => savedComparisons'[k].data # Null
      ]_vars

\* toggle was called on an unstructured result, with a bookmark in the list
C38_Witness ==
    /\ last.op = "toggleSave"
    /\ loadingState = SUCCESS /\ result # Null /\ result.data = Null
    /\ Len(savedComparisons) = 1


----------------------------------------------------------------------------
(* Progress *)

\* a non-blank search can be started from the state: by submitting the form, after
\* typing a query when the field is blank, after leaving the saved view when it is open
CanSearch ==
    IF view = "saved" THEN ENABLED (ToggleView /\ AppOnly)
    ELSE IF Blank(query) THEN ENABLED (handleInputChange(QA) /\ AppOnly)
    ELSE ENABLED (SubmitForm /\ AppOnly /\ loadingState' = LOADING)

(* C39: when every comparison request eventually resolves or rejects,      *)
(* LOADING is never permanent: every dispatched search is eventually       *)
(* followed by a state other than LOADING, and from every state other than *)
(* LOADING a new non-blank search can be dispatched.                       *)
C39_LoadingEnds ==
    /\ (loadingState = LOADING) ~> (loadingState # LOADING)
    /\ [](mounted /\ loadingState # LOADING /\ Len(inflight) < MaxInFlight => CanSearch)

\* a search has settled and the form can be submitted again
C39_Witness ==
    /\ last.op \in {"resolved", "rejected"}
    /\ loadingState \in {SUCCESS, ERROR}
    /\ inflight = <<>>
    /\ ENABLED (SubmitForm /\ AppOnly /\ loadingState' = LOADING)

====
